---- MODULE Spec2Model ----
(***************************************************************************)
(* Skill gap analysis engine of skill-gap-analyzer:                        *)
(*   backend/app/services/skill_analyzer.py   (SkillGapAnalyzer)           *)
(*   backend/app/services/data_preprocessor.py (create_job_skill_mapping)  *)
(*                                                                         *)
(* Similarities and confidences are floats in the source; here they are    *)
(* integers in thousandths (0.7 is 700, fuzz.ratio 83 / 100.0 is 830).     *)
(* A proficiency score is the exact fraction num / den.                    *)
(***************************************************************************)
EXTENDS Integers, Sequences, FiniteSets, TLC

(***************************************************************************)
(* Bounds of the explored inputs.                                          *)
(***************************************************************************)
MaxRows == 3        \* rows of the skills database CSV
MaxCands == 2       \* length of a resume_skills list
MaxPathLen == 3     \* length of the skills list given to _create_learning_path
MaxPresent == 1     \* length of the present list given to _categorize_skills
MaxBatch == 2       \* number of skill lists in a batch
MaxNamed == 2       \* length of a list of skills named as keywords
MaxTier == 1        \* length of the critical and of the important list
MaxNice == 6        \* length of the nice-to-have list
MaxMatches == 3     \* length of a list of matches
MaxMentioned == 34  \* number of patterns found in a text
MaxReprocess == 2   \* number of reprocess requests

(***************************************************************************)
(* The strings of the explored universe, as character sequences.           *)
(***************************************************************************)
Chars(s) ==
    CASE s = "Python" -> <<"P", "y", "t", "h", "o", "n">>
      [] s = "SQL"    -> <<"S", "Q", "L">>
      [] s = "Java"   -> <<"J", "a", "v", "a">>
      [] s = "python" -> <<"p", "y", "t", "h", "o", "n">>
      [] s = "pyhton" -> <<"p", "y", "h", "t", "o", "n">>
      [] s = "cobol"  -> <<"c", "o", "b", "o", "l">>
      [] s = "JavaScript" -> <<"J", "a", "v", "a", "S", "c", "r", "i", "p", "t">>
      [] s = "C++" -> <<"C", "+", "+">>
      [] s = "R" -> <<"R">>
      [] s = "Machine Learning" -> <<"M", "a", "c", "h", "i", "n", "e", " ", "L", "e", "a", "r", "n", "i", "n", "g">>
      [] s = "Deep Learning" -> <<"D", "e", "e", "p", " ", "L", "e", "a", "r", "n", "i", "n", "g">>
      [] s = "Statistics" -> <<"S", "t", "a", "t", "i", "s", "t", "i", "c", "s">>
      [] s = "Data Analysis" -> <<"D", "a", "t", "a", " ", "A", "n", "a", "l", "y", "s", "i", "s">>
      [] s = "HTML" -> <<"H", "T", "M", "L">>
      [] s = "CSS" -> <<"C", "S", "S">>
      [] s = "React" -> <<"R", "e", "a", "c", "t">>
      [] s = "Angular" -> <<"A", "n", "g", "u", "l", "a", "r">>
      [] s = "Node.js" -> <<"N", "o", "d", "e", ".", "j", "s">>
      [] s = "MySQL" -> <<"M", "y", "S", "Q", "L">>
      [] s = "PostgreSQL" -> <<"P", "o", "s", "t", "g", "r", "e", "S", "Q", "L">>
      [] s = "MongoDB" -> <<"M", "o", "n", "g", "o", "D", "B">>
      [] s = "AWS" -> <<"A", "W", "S">>
      [] s = "Azure" -> <<"A", "z", "u", "r", "e">>
      [] s = "Google Cloud" -> <<"G", "o", "o", "g", "l", "e", " ", "C", "l", "o", "u", "d">>
      [] s = "Docker" -> <<"D", "o", "c", "k", "e", "r">>
      [] s = "Kubernetes" -> <<"K", "u", "b", "e", "r", "n", "e", "t", "e", "s">>
      [] s = "Git" -> <<"G", "i", "t">>
      [] s = "Jenkins" -> <<"J", "e", "n", "k", "i", "n", "s">>
      [] s = "Tableau" -> <<"T", "a", "b", "l", "e", "a", "u">>
      [] s = "programming" -> <<"p", "r", "o", "g", "r", "a", "m", "m", "i", "n", "g">>
      [] s = "ai" -> <<"a", "i">>
      [] s = "data science" -> <<"d", "a", "t", "a", " ", "s", "c", "i", "e", "n", "c", "e">>
      [] s = "java" -> <<"j", "a", "v", "a">>
      [] s = "javascript" -> <<"j", "a", "v", "a", "s", "c", "r", "i", "p", "t">>
      [] s = "c++" -> <<"c", "+", "+">>
      [] s = "r" -> <<"r">>
      [] s = "sql" -> <<"s", "q", "l">>
      [] s = "machine learning" -> <<"m", "a", "c", "h", "i", "n", "e", " ", "l", "e", "a", "r", "n", "i", "n", "g">>
      [] s = "deep learning" -> <<"d", "e", "e", "p", " ", "l", "e", "a", "r", "n", "i", "n", "g">>
      [] s = "tensorflow" -> <<"t", "e", "n", "s", "o", "r", "f", "l", "o", "w">>
      [] s = "scikit" -> <<"s", "c", "i", "k", "i", "t">>
      [] s = "neural" -> <<"n", "e", "u", "r", "a", "l">>
      [] s = "html" -> <<"h", "t", "m", "l">>
      [] s = "css" -> <<"c", "s", "s">>
      [] s = "react" -> <<"r", "e", "a", "c", "t">>
      [] s = "angular" -> <<"a", "n", "g", "u", "l", "a", "r">>
      [] s = "node" -> <<"n", "o", "d", "e">>
      [] s = "express" -> <<"e", "x", "p", "r", "e", "s", "s">>
      [] s = "mysql" -> <<"m", "y", "s", "q", "l">>
      [] s = "Python, SQL" -> <<"P", "y", "t", "h", "o", "n", ",", " ", "S", "Q", "L">>
      [] s = "postgresql" -> <<"p", "o", "s", "t", "g", "r", "e", "s", "q", "l">>
      [] s = "mongodb" -> <<"m", "o", "n", "g", "o", "d", "b">>
      [] s = "database" -> <<"d", "a", "t", "a", "b", "a", "s", "e">>
      [] s = "aws" -> <<"a", "w", "s">>
      [] s = "azure" -> <<"a", "z", "u", "r", "e">>
      [] s = "cloud" -> <<"c", "l", "o", "u", "d">>
      [] s = "docker" -> <<"d", "o", "c", "k", "e", "r">>
      [] s = "kubernetes" -> <<"k", "u", "b", "e", "r", "n", "e", "t", "e", "s">>
      [] s = "tableau" -> <<"t", "a", "b", "l", "e", "a", "u">>
      [] s = "power bi" -> <<"p", "o", "w", "e", "r", " ", "b", "i">>
      [] s = "excel" -> <<"e", "x", "c", "e", "l">>
      [] s = "analytics" -> <<"a", "n", "a", "l", "y", "t", "i", "c", "s">>
      [] s = "statistics" -> <<"s", "t", "a", "t", "i", "s", "t", "i", "c", "s">>
      [] s = "Scikit" -> <<"S", "c", "i", "k", "i", "t">>

\* str.lower() on one character
lower_char(ch) ==
    CASE ch = "A" -> "a"
      [] ch = "B" -> "b"
      [] ch = "C" -> "c"
      [] ch = "D" -> "d"
      [] ch = "G" -> "g"
      [] ch = "H" -> "h"
      [] ch = "J" -> "j"
      [] ch = "K" -> "k"
      [] ch = "L" -> "l"
      [] ch = "M" -> "m"
      [] ch = "N" -> "n"
      [] ch = "P" -> "p"
      [] ch = "Q" -> "q"
      [] ch = "R" -> "r"
      [] ch = "S" -> "s"
      [] ch = "T" -> "t"
      [] ch = "W" -> "w"
      [] OTHER    -> ch

\* str.lower()
lower(s) == [i \in 1..Len(s) |-> lower_char(s[i])]

Max(a, b) == IF a >= b THEN a ELSE b

(***************************************************************************)
(* fuzz.ratio: int(round(100 * 2*M / T)), M the number of matched          *)
(* characters (longest common subsequence), T the summed lengths; 100 for  *)
(* equal strings and 0 when one is empty.                                  *)
(***************************************************************************)
RECURSIVE LcsLen(_, _)
LcsLen(a, b) ==
    IF a = <<>> \/ b = <<>> THEN 0
    ELSE IF Head(a) = Head(b) THEN 1 + LcsLen(Tail(a), Tail(b))
    ELSE Max(LcsLen(Tail(a), b), LcsLen(a, Tail(b)))

\* utils.intr: int(round(n / d)), Python 3 rounding (ties to even)
intr(n, d) ==
    LET q == n \div d
        r == n % d
    IN  IF 2 * r > d THEN q + 1
        ELSE IF 2 * r < d THEN q
        ELSE IF q % 2 = 0 THEN q ELSE q + 1

ratio(s1, s2) ==
    IF s1 = s2 THEN 100
    ELSE IF Len(s1) = 0 \/ Len(s2) = 0 THEN 0
    ELSE intr(100 * 2 * LcsLen(s1, s2), Len(s1) + Len(s2))

(***************************************************************************)
(* The skills database (CSV rows) and create_job_skill_mapping.            *)
(***************************************************************************)
CsvRow(job, skill, hot, demand) ==
    ("Job Profession" :> job) @@ ("Skills" :> skill) @@
    ("Hot Technology" :> hot) @@ ("In Demand" :> demand)

RowUniverse ==
    { CsvRow("Data Analyst", "Python", "Y", "N"), CsvRow("Data Analyst", "Python", "N", "Y"),
      CsvRow("Data Analyst", "Python", "N", "N"), CsvRow("Data Analyst", "SQL", "Y", "Y"),
      CsvRow("Data Analyst", "SQL", "N", "N"), CsvRow("Web Developer", "Python", "Y", "Y") }

SkillsDf == UNION { [1..n -> RowUniverse] : n \in 0..MaxRows }

Range(list) == { list[i] : i \in 1..Len(list) }

Contains(list, x) == \E i \in 1..Len(list) : list[i] = x

\* one iteration of the loop over skills_df.iterrows()
MappingAddRow(job_skills, row) ==
    LET job_profession == row["Job Profession"]
        skill == row["Skills"]
        task == ""
        hot_tech == row["Hot Technology"] = "Y"
        in_demand == row["In Demand"] = "Y"
        base == IF job_profession \in DOMAIN job_skills
                THEN job_skills
                ELSE job_skills @@ (job_profession :>
                        [skills |-> <<>>, tasks |-> <<>>,
                         hot_technologies |-> <<>>, in_demand_skills |-> <<>>])
        old == base[job_profession]
        skill_info == [skill |-> skill, task |-> task,
                       is_hot_tech |-> hot_tech, is_in_demand |-> in_demand]
        new == [skills |-> Append(old.skills, skill_info),
                tasks |-> IF task /= "" /\ ~Contains(old.tasks, task)
                          THEN Append(old.tasks, task) ELSE old.tasks,
                hot_technologies |-> IF hot_tech THEN Append(old.hot_technologies, skill)
                                     ELSE old.hot_technologies,
                in_demand_skills |-> IF in_demand THEN Append(old.in_demand_skills, skill)
                                     ELSE old.in_demand_skills]
    IN  [j \in DOMAIN base |-> IF j = job_profession THEN new ELSE base[j]]

RECURSIVE MappingFold(_, _)
MappingFold(job_skills, rows) ==
    IF rows = <<>> THEN job_skills
    ELSE MappingFold(MappingAddRow(job_skills, Head(rows)), Tail(rows))

create_job_skill_mapping(skills_df) == MappingFold(<<>>, skills_df)

(***************************************************************************)
(* The sentence-transformer and sklearn's cosine_similarity: the           *)
(* similarity, in thousandths, between the encoding of a resume skill and  *)
(* the stored embedding of a vocabulary skill, for two encoder models.     *)
(***************************************************************************)
SbertModels == {"all-MiniLM-L6-v2", "paraphrase-MiniLM-L3-v2"}

cosine_similarity(model, resume_skill, embedding) ==
    IF model = "all-MiniLM-L6-v2"
    THEN CASE resume_skill = "python" /\ embedding = "emb:Python" -> 1000
           [] resume_skill = "pyhton" /\ embedding = "emb:Python" -> 600
           [] resume_skill = "cobol"  /\ embedding = "emb:Java"   -> 700
           [] resume_skill = "cobol"  /\ embedding = "emb:Python" -> 450
           [] OTHER -> 200
    ELSE CASE resume_skill = "python" /\ embedding = "emb:Python" -> 900
           [] resume_skill = "pyhton" /\ embedding = "emb:Python" -> 500
           [] resume_skill = "pyhton" /\ embedding = "emb:Java"   -> 830
           [] resume_skill = "cobol"  /\ embedding = "emb:SQL"    -> 750
           [] OTHER -> 0 - 100

Candidates == {"python", "pyhton", "cobol"}
Vocabulary == <<"Python", "SQL", "Java">>

\* fuzz.ratio(resume_skill.lower(), skill.lower()), tabulated over the universe
FuzzRatioTable ==
    [resume_skill \in Candidates |->
        [j \in 1..Len(Vocabulary) |->
            ratio(lower(Chars(resume_skill)), lower(Chars(Vocabulary[j])))]]

\* mutant: the two strings are compared without lower()
FuzzRatio_CaseSensitive(resume_skill, skill) == ratio(Chars(resume_skill), Chars(skill))

FuzzRatio(resume_skill, skill) ==
    LET j == CHOOSE k \in 1..Len(Vocabulary) : Vocabulary[k] = skill
    IN  FuzzRatioTable[resume_skill][j]
ResumeSkills == UNION { [1..n -> Candidates] : n \in 0..MaxCands }
TargetJobs == {"Data Analyst", "Web Developer", "Astronaut"}
Thresholds == {700, 1000}

VARIABLES
    skill_list,             \* self.skill_list: the vocabulary, in file order
    skill_embeddings,       \* self.skill_embeddings: one embedding per vocabulary entry
    job_skill_mapping,      \* self.job_skill_mapping
    similarity_threshold,   \* self.similarity_threshold, in thousandths
    sbert_model,            \* self.sbert_model
    call,                   \* the call in progress or last made, with its arguments
    outcome,                \* "idle", "returned" or "raised"
    result,                 \* the value the call returned
    snapshot,               \* skill_embeddings.json and job_skill_mapping.json on disk
    skill_analyzer,         \* the module global of api/analysis.py
    remembered,             \* history: an earlier call, its outcome and its result
    resumes,                \* the resumes table: resume id -> its row
    resume_skills_table,    \* the resume_skills table, in insertion order
    background_tasks,       \* the process_resume_skills tasks scheduled so far
    reprocessed             \* the number of reprocess requests served

vars == <<skill_list, skill_embeddings, job_skill_mapping, similarity_threshold,
          sbert_model, call, outcome, result, snapshot, skill_analyzer, remembered,
          resumes, resume_skills_table, background_tasks, reprocessed>>

\* the database tables of api/resumes.py and its background tasks
store == <<resumes, resume_skills_table, background_tasks, reprocessed>>

\* no resume uploaded yet
NoStore ==
    /\ resumes = <<>>
    /\ resume_skills_table = <<>>
    /\ background_tasks = <<>>
    /\ reprocessed = 0

analyzer == <<skill_list, skill_embeddings, job_skill_mapping, similarity_threshold,
              sbert_model>>

\* the analyzer object the methods are called on
Self ==
    [skill_list |-> skill_list, skill_embeddings |-> skill_embeddings,
     job_skill_mapping |-> job_skill_mapping,
     similarity_threshold |-> similarity_threshold, sbert_model |-> sbert_model]

(***************************************************************************)
(* extract_and_match_skills                                                *)
(***************************************************************************)
\* np.argmax: the first index of a largest element
argmax(scores) ==
    CHOOSE i \in 1..Len(scores) :
        /\ \A j \in 1..Len(scores) : scores[j] <= scores[i]
        /\ \A j \in 1..(i - 1) : scores[j] < scores[i]

\* mutant: a tie goes to the fuzzy match
SemanticWins_Strict(best_similarity, best_fuzzy_score) == best_similarity > best_fuzzy_score

\* if best_similarity >= best_fuzzy_score
SemanticWins(best_similarity, best_fuzzy_score) == best_similarity >= best_fuzzy_score

\* mutant: a score equal to the threshold is rejected
MeetsThreshold_Strict(final_score, threshold) == final_score > threshold

\* if final_score >= self.similarity_threshold
MeetsThreshold(final_score, threshold) == final_score >= threshold

\* mutant: the resume's own spelling is stored as the matched skill
MatchedSkill_Original(vocabulary, final_match_idx, resume_skill) == resume_skill

\* "matched_skill": self.skill_list[final_match_idx]
MatchedSkill(vocabulary, final_match_idx, resume_skill) == vocabulary[final_match_idx]

\* the body of the loop over resume_skills: the matches after this candidate
MatchStep(self, matched_skills, resume_skill) ==
    LET skill_similarities ==
            [j \in 1..Len(self.skill_embeddings) |->
                cosine_similarity(self.sbert_model, resume_skill, self.skill_embeddings[j])]
        best_match_idx == argmax(skill_similarities)
        best_similarity == skill_similarities[best_match_idx]
        fuzzy_scores ==
            [j \in 1..Len(self.skill_list) |->
                FuzzRatio(resume_skill, self.skill_list[j]) * 10]
        best_fuzzy_idx == argmax(fuzzy_scores)
        best_fuzzy_score == fuzzy_scores[best_fuzzy_idx]
        semantic == SemanticWins(best_similarity, best_fuzzy_score)
        final_match_idx == IF semantic THEN best_match_idx ELSE best_fuzzy_idx
        final_score == IF semantic THEN best_similarity ELSE best_fuzzy_score
        match_type == IF semantic THEN "semantic" ELSE "fuzzy"
    IN  IF MeetsThreshold(final_score, self.similarity_threshold)
        THEN Append(matched_skills,
                    [original_skill |-> resume_skill,
                     matched_skill |-> MatchedSkill(self.skill_list, final_match_idx, resume_skill),
                     confidence |-> final_score,
                     match_type |-> match_type])
        ELSE matched_skills

RECURSIVE MatchLoop(_, _, _)
MatchLoop(self, matched_skills, rest) ==
    IF rest = <<>> THEN matched_skills
    ELSE MatchLoop(self, MatchStep(self, matched_skills, Head(rest)), Tail(rest))

\* mutant: the list of matches lives on the analyzer and grows from call to call
NoMatches_Kept ==
    IF remembered.call.op = "extract_and_match_skills" /\ remembered.outcome = "returned"
    THEN remembered.result
    ELSE <<>>

\* matched_skills = []
NoMatches == <<>>

extract_and_match_skills(self, resume_skills) ==
    IF resume_skills = <<>> THEN <<>> ELSE MatchLoop(self, NoMatches, resume_skills)

\* mutant: the encoder's failure is caught and the matching goes on
MatchRaises_Swallowed(resume_skills, encode_ok) == FALSE

\* the call raises when resume_skills is non-empty and sbert_model.encode fails
MatchRaises(resume_skills, encode_ok) == resume_skills /= <<>> /\ ~encode_ok

(***************************************************************************)
(* get_job_required_skills                                                 *)
(***************************************************************************)
get_job_required_skills(self, job_profession) ==
    IF job_profession \notin DOMAIN self.job_skill_mapping
    THEN [skills |-> <<>>, hot_technologies |-> <<>>,
          in_demand_skills |-> <<>>, tasks |-> <<>>]
    ELSE self.job_skill_mapping[job_profession]

\* mutant: the lookup is a setdefault, an unknown job gets an empty entry
MappingAfterLookup_SetDefault(mapping, job_profession) ==
    IF job_profession \in DOMAIN mapping THEN mapping
    ELSE [j \in DOMAIN mapping \cup {job_profession} |->
            IF j \in DOMAIN mapping THEN mapping[j]
            ELSE [skills |-> <<>>, hot_technologies |-> <<>>,
                  in_demand_skills |-> <<>>, tasks |-> <<>>]]

\* self.job_skill_mapping after get_job_required_skills: a membership test and a read
MappingAfterLookup(mapping, job_profession) == mapping

(***************************************************************************)
(* _create_learning_path, _estimate_learning_time, _get_prerequisites      *)
(***************************************************************************)
\* needle in haystack, on character sequences
IsSubstring(needle, haystack) ==
    \E i \in 0..(Len(haystack) - Len(needle)) :
        SubSeq(haystack, i + 1, i + Len(needle)) = needle

\* the skill_categories dict, in its insertion order
skill_categories ==
    <<[category |-> "programming",
       cat_skills |-> <<"Python", "Java", "JavaScript", "C++", "R">>],
      [category |-> "data_science",
       cat_skills |-> <<"Machine Learning", "Deep Learning", "Statistics", "Data Analysis">>],
      [category |-> "web",
       cat_skills |-> <<"HTML", "CSS", "React", "Angular", "Node.js">>],
      [category |-> "database",
       cat_skills |-> <<"SQL", "MySQL", "PostgreSQL", "MongoDB">>],
      [category |-> "cloud",
       cat_skills |-> <<"AWS", "Azure", "Google Cloud", "Docker", "Kubernetes">>],
      [category |-> "tools",
       cat_skills |-> <<"Git", "Docker", "Jenkins", "Tableau">>]>>

\* any(cat_skill.lower() in skill.lower() for cat_skill in cat_skills)
AnyKeywordIn(cat_skills, skill) ==
    \E k \in 1..Len(cat_skills) :
        IsSubstring(lower(Chars(cat_skills[k])), lower(Chars(skill)))

\* the loop over skill_categories.items() with its break: the first category that matches
RECURSIVE FirstCategory(_, _)
FirstCategory(categories, skill) ==
    IF categories = <<>> THEN "other"
    ELSE IF AnyKeywordIn(Head(categories).cat_skills, skill) THEN Head(categories).category
    ELSE FirstCategory(Tail(categories), skill)

\* the names of the skills of the explored universe
PathSkills == {"Docker", "Python", "SQL", "Git", "Statistics", "HTML", "AWS", "MongoDB", "Scikit"}
SkillNames == PathSkills \cup {"Python", "SQL", "Java"}

\* the names listed in the skill_categories dict
KeywordSkills ==
    UNION { Range(skill_categories[i].cat_skills) : i \in 1..Len(skill_categories) }

\* the category of each skill of the universe, tabulated
LearningCategoryTable ==
    [skill \in SkillNames \cup KeywordSkills |-> FirstCategory(skill_categories, skill)]

LearningCategory(skill) == LearningCategoryTable[skill]

\* mutant: the categories are emitted in the order of the skill_categories dict
order_OfDict ==
    <<"programming", "data_science", "web", "database", "cloud", "tools", "other">>

\* order = [...]: the learning order, foundational first
order == <<"programming", "database", "tools", "data_science", "web", "cloud", "other">>

\* mutant: time_map is looked up by the skill, which is never a key
estimate_learning_time_BySkill(skill, category) == 4

\* time_map.get(category, 4)
estimate_learning_time(skill, category) ==
    CASE category = "programming"  -> 8
      [] category = "data_science" -> 12
      [] category = "web"          -> 6
      [] category = "database"     -> 4
      [] category = "cloud"        -> 6
      [] category = "tools"        -> 2
      [] category = "other"        -> 4
      [] OTHER                     -> 4

\* prereq_map.get(skill, [])
get_prerequisites(skill, category) ==
    CASE skill = "Machine Learning" -> <<"Python", "Statistics", "Mathematics">>
      [] skill = "Deep Learning"    -> <<"Machine Learning", "Python", "TensorFlow">>
      [] skill = "React"            -> <<"JavaScript", "HTML", "CSS">>
      [] skill = "Node.js"          -> <<"JavaScript">>
      [] skill = "Docker"           -> <<"Linux", "Command Line">>
      [] skill = "Kubernetes"       -> <<"Docker", "Linux">>
      [] OTHER                      -> <<>>

\* categorized_skills[category]: the skills of the category, in input order
CategorizedSkills(skills, category) ==
    LET in_category(skill) == LearningCategory(skill) = category
    IN  SelectSeq(skills, in_category)

\* the loop over order: the items of the categories, one category after the other
RECURSIVE PathLoop(_, _)
PathLoop(categories, skills) ==
    IF categories = <<>> THEN <<>>
    ELSE LET category == Head(categories)
             members == CategorizedSkills(skills, category)
         IN  [i \in 1..Len(members) |->
                 [skill |-> members[i],
                  category |-> category,
                  estimated_weeks |-> estimate_learning_time(members[i], category),
                  prerequisites |-> get_prerequisites(members[i], category)]]
             \o PathLoop(Tail(categories), skills)

create_learning_path(skills) == PathLoop(order, skills)

(***************************************************************************)
(* _categorize_skills                                                      *)
(***************************************************************************)
\* the if / elif chain, in its order, with the keywords of each test
category_tests ==
    <<[bucket |-> "Programming Languages",
       keywords |-> <<"python", "java", "javascript", "c++", "r", "sql">>],
      [bucket |-> "Machine Learning/AI",
       keywords |-> <<"machine learning", "deep learning", "tensorflow", "scikit", "neural">>],
      [bucket |-> "Web Technologies",
       keywords |-> <<"html", "css", "react", "angular", "node", "express">>],
      [bucket |-> "Databases",
       keywords |-> <<"mysql", "postgresql", "mongodb", "database", "sql">>],
      [bucket |-> "Cloud & DevOps",
       keywords |-> <<"aws", "azure", "cloud", "docker", "kubernetes">>],
      [bucket |-> "Data Analysis",
       keywords |-> <<"tableau", "power bi", "excel", "analytics", "statistics">>]>>

\* any(keyword in skill_lower for keyword in [...])
AnyIn(keywords, skill_lower) ==
    \E k \in 1..Len(keywords) : IsSubstring(Chars(keywords[k]), skill_lower)

\* the if / elif / else chain: the bucket the skill is appended to
RECURSIVE FirstBucket(_, _)
FirstBucket(tests, skill_lower) ==
    IF tests = <<>> THEN "Other"
    ELSE IF AnyIn(Head(tests).keywords, skill_lower) THEN Head(tests).bucket
    ELSE FirstBucket(Tail(tests), skill_lower)

\* the keywords of the if / elif chain, as skill names
KeywordNames ==
    UNION { Range(category_tests[i].keywords) : i \in 1..Len(category_tests) }

\* the bucket of each skill of the universe, tabulated
BucketTable ==
    [skill \in SkillNames \cup KeywordNames |->
        FirstBucket(category_tests, lower(Chars(skill)))]

Bucket(skill) == BucketTable[skill]

\* the keys of the categories dict
Buckets ==
    { category_tests[i].bucket : i \in 1..Len(category_tests) } \cup {"Other"}

\* mutant: the empty categories are not removed
RemoveEmpty_Forgotten(categories) == categories

\* {k: v for k, v in categories.items() if v}
RemoveEmpty(categories) ==
    [k \in { b \in DOMAIN categories : categories[b] /= <<>> } |-> categories[k]]

categorize_skills(present, missing) ==
    LET all_skills == present \o missing
        categories ==
            [b \in Buckets |->
                LET in_bucket(skill) == Bucket(skill) = b
                IN  SelectSeq(all_skills, in_bucket)]
    IN  RemoveEmpty(categories)

(***************************************************************************)
(* _generate_recommendations                                               *)
(***************************************************************************)
\* list[:n]
Prefix(list, n) == SubSeq(list, 1, IF Len(list) < n THEN Len(list) ELSE n)

Prioritised(skills, priority, reason) ==
    [i \in 1..Len(skills) |-> [skill |-> skills[i], priority |-> priority, reason |-> reason]]

\* mutant: every nice-to-have skill is listed in the priority order
NiceToHaveListed_All(nice_to_have) == nice_to_have

\* nice_to_have[:5]
NiceToHaveListed(nice_to_have) == Prefix(nice_to_have, 5)

\* mutant: the learning path takes the nice-to-have skills of the priority order
NiceToHaveLearned_Five(nice_to_have) == Prefix(nice_to_have, 5)

\* nice_to_have[:3]
NiceToHaveLearned(nice_to_have) == Prefix(nice_to_have, 3)

generate_recommendations(critical, important, nice_to_have) ==
    LET all_missing == critical \o important \o NiceToHaveLearned(nice_to_have)
    IN  [priority_order |->
             Prioritised(critical, "Critical", "High demand and trending")
             \o Prioritised(important, "Important", "Industry demand or trending")
             \o Prioritised(NiceToHaveListed(nice_to_have), "Nice-to-have",
                            "Complementary skill"),
         learning_path |-> create_learning_path(all_missing),
         estimated_time |-> <<>>]

(***************************************************************************)
(* analyze_skill_gap                                                       *)
(***************************************************************************)
\* mutant: the filter on matched_skill_names is forgotten
MissingSkills_Unfiltered(required_skills, matched_skill_names) == required_skills

\* [skill for skill in required_skills if skill not in matched_skill_names]
MissingSkills(required_skills, matched_skill_names) ==
    LET absent(skill) == ~Contains(matched_skill_names, skill)
    IN  SelectSeq(required_skills, absent)

\* [skill for skill in required_skills if skill in matched_skill_names]
PresentSkills(required_skills, matched_skill_names) ==
    LET found(skill) == Contains(matched_skill_names, skill)
    IN  SelectSeq(required_skills, found)

\* total_required = len(required_skills)
TotalRequired(required_skills) == Len(required_skills)

\* mutant: the division is not guarded against an empty requirement list
Divisor_NoGuard(total_required) == total_required

\* max(total_required, 1)
Divisor(total_required) == Max(total_required, 1)

\* mutant: numerator and denominator are swapped
ProficiencyScore_Swapped(skills_present, total_required) ==
    [num |-> total_required * 100, den |-> Max(skills_present, 1)]

\* (skills_present / max(total_required, 1)) * 100, as the fraction num / den
ProficiencyScore(skills_present, total_required) ==
    [num |-> skills_present * 100, den |-> Divisor(total_required)]

\* the if / elif / else chain over a missing skill
IsCritical(skill, hot_technologies, in_demand_skills) ==
    Contains(hot_technologies, skill) /\ Contains(in_demand_skills, skill)

\* mutant: the second test is an "if" of its own, not an "elif"
IsImportant_NotElif(skill, hot_technologies, in_demand_skills) ==
    Contains(hot_technologies, skill) \/ Contains(in_demand_skills, skill)

IsImportant(skill, hot_technologies, in_demand_skills) ==
    /\ ~IsCritical(skill, hot_technologies, in_demand_skills)
    /\ (Contains(hot_technologies, skill) \/ Contains(in_demand_skills, skill))

IsNiceToHave(skill, hot_technologies, in_demand_skills) ==
    /\ ~IsCritical(skill, hot_technologies, in_demand_skills)
    /\ ~(Contains(hot_technologies, skill) \/ Contains(in_demand_skills, skill))

analyze_skill_gap(self, resume_skills, target_job) ==
    LET matched_skills == extract_and_match_skills(self, resume_skills)
        matched_skill_names ==
            [i \in 1..Len(matched_skills) |-> matched_skills[i].matched_skill]
        job_requirements == get_job_required_skills(self, target_job)
        required_skills ==
            [i \in 1..Len(job_requirements.skills) |-> job_requirements.skills[i].skill]
        hot_technologies == job_requirements.hot_technologies
        in_demand_skills == job_requirements.in_demand_skills
        missing_skills == MissingSkills(required_skills, matched_skill_names)
        present_skills == PresentSkills(required_skills, matched_skill_names)
        unmatched(skill) == ~Contains(matched_skill_names, skill)
        missing_hot_tech == SelectSeq(hot_technologies, unmatched)
        missing_in_demand == SelectSeq(in_demand_skills, unmatched)
        total_required == TotalRequired(required_skills)
        skills_present == Len(present_skills)
        critical(skill) == IsCritical(skill, hot_technologies, in_demand_skills)
        important(skill) == IsImportant(skill, hot_technologies, in_demand_skills)
        nice(skill) == IsNiceToHave(skill, hot_technologies, in_demand_skills)
        critical_missing == SelectSeq(missing_skills, critical)
        important_missing == SelectSeq(missing_skills, important)
        nice_to_have_missing == SelectSeq(missing_skills, nice)
    IN  [target_job |-> target_job,
         proficiency_score |-> ProficiencyScore(skills_present, total_required),
         total_required_skills |-> total_required,
         skills_present |-> skills_present,
         matched_skills |-> matched_skills,
         present_skills |-> present_skills,
         missing_skills |-> missing_skills,
         critical_missing |-> critical_missing,
         important_missing |-> important_missing,
         nice_to_have_missing |-> nice_to_have_missing,
         missing_hot_technologies |-> missing_hot_tech,
         missing_in_demand |-> missing_in_demand,
         recommendations |->
             generate_recommendations(critical_missing, important_missing,
                                      nice_to_have_missing),
         skill_categories |-> categorize_skills(present_skills, missing_skills)]

\* the call raises when matching raises, or on a division by zero
AnalyzeRaises(self, resume_skills, target_job, encode_ok) ==
    \/ MatchRaises(resume_skills, encode_ok)
    \/ Divisor(TotalRequired(get_job_required_skills(self, target_job).skills)) = 0

(***************************************************************************)
(* The state machine: a loaded analyzer serving one call at a time.        *)
(***************************************************************************)
NoCall == [op |-> "none", resume_skills |-> <<>>, target_job |-> "", encode_ok |-> TRUE]
NoResult == <<>>
NoMemory == [call |-> NoCall, outcome |-> "idle", result |-> NoResult, others |-> FALSE]

\* history: once a call is remembered, whether a different call has run since
Noting(new_call) ==
    IF remembered.outcome = "idle"
       \/ (new_call.op = remembered.call.op /\ new_call = remembered.call)
    THEN remembered
    ELSE [remembered EXCEPT !.others = TRUE]

\* the first n rows of the embedding matrix create_skill_embeddings writes
Embeddings(n) == [j \in 1..n |-> "emb:" \o Vocabulary[j]]

\* the two files as the preprocessor writes them
WrittenSnapshot(mapping) ==
    [embeddings_readable |-> TRUE, mapping_readable |-> TRUE,
     skills |-> Vocabulary, embeddings |-> Embeddings(Len(Vocabulary)),
     mapping |-> mapping]

\* load_skill_data: the fields it has assigned, and whether it raised
load_skill_data(snap) ==
    IF ~snap.embeddings_readable
    THEN [raised |-> TRUE, skill_list |-> <<>>, skill_embeddings |-> <<>>,
          job_skill_mapping |-> <<>>]
    ELSE IF ~snap.mapping_readable
    THEN [raised |-> TRUE, skill_list |-> snap.skills,
          skill_embeddings |-> snap.embeddings, job_skill_mapping |-> <<>>]
    ELSE [raised |-> FALSE, skill_list |-> snap.skills,
          skill_embeddings |-> snap.embeddings, job_skill_mapping |-> snap.mapping]

\* __init__ and load_skill_data, on the files written by the preprocessor
Init ==
    /\ \E skills_df \in SkillsDf :
        snapshot = WrittenSnapshot(create_job_skill_mapping(skills_df))
    /\ skill_list = load_skill_data(snapshot).skill_list
    /\ skill_embeddings = load_skill_data(snapshot).skill_embeddings
    /\ job_skill_mapping = load_skill_data(snapshot).job_skill_mapping
    /\ similarity_threshold \in Thresholds
    /\ sbert_model \in SbertModels
    /\ call = NoCall
    /\ outcome = "idle"
    /\ result = NoResult
    /\ skill_analyzer = "SkillGapAnalyzer"
    /\ remembered = NoMemory
    /\ NoStore

ExtractAndMatchSkills ==
    /\ outcome = "idle"
    /\ \E resume_skills \in ResumeSkills, encode_ok \in BOOLEAN :
        /\ call' = [op |-> "extract_and_match_skills", resume_skills |-> resume_skills,
                    target_job |-> "", encode_ok |-> encode_ok]
        /\ IF MatchRaises(resume_skills, encode_ok)
           THEN outcome' = "raised" /\ result' = NoResult
           ELSE outcome' = "returned" /\ result' = extract_and_match_skills(Self, resume_skills)
    /\ remembered' = Noting(call')
    /\ UNCHANGED store
    /\ UNCHANGED <<analyzer, snapshot, skill_analyzer>>

GetJobRequiredSkills ==
    /\ outcome = "idle"
    /\ \E job_profession \in TargetJobs :
        /\ call' = [op |-> "get_job_required_skills", resume_skills |-> <<>>,
                    target_job |-> job_profession, encode_ok |-> TRUE]
        /\ outcome' = "returned"
        /\ result' = get_job_required_skills(Self, job_profession)
        /\ job_skill_mapping' = MappingAfterLookup(job_skill_mapping, job_profession)
    /\ remembered' = Noting(call')
    /\ UNCHANGED store
    /\ UNCHANGED <<skill_list, skill_embeddings, similarity_threshold, sbert_model,
                   snapshot, skill_analyzer>>

AnalyzeSkillGap ==
    /\ outcome = "idle"
    /\ \E resume_skills \in ResumeSkills, target_job \in TargetJobs, encode_ok \in BOOLEAN :
        /\ call' = [op |-> "analyze_skill_gap", resume_skills |-> resume_skills,
                    target_job |-> target_job, encode_ok |-> encode_ok]
        /\ IF AnalyzeRaises(Self, resume_skills, target_job, encode_ok)
           THEN outcome' = "raised" /\ result' = NoResult
           ELSE /\ outcome' = "returned"
                /\ result' = analyze_skill_gap(Self, resume_skills, target_job)
        /\ job_skill_mapping' =
             IF MatchRaises(resume_skills, encode_ok) THEN job_skill_mapping
             ELSE MappingAfterLookup(job_skill_mapping, target_job)
    /\ remembered' = Noting(call')
    /\ UNCHANGED store
    /\ UNCHANGED <<skill_list, skill_embeddings, similarity_threshold, sbert_model,
                   snapshot, skill_analyzer>>

\* the caller takes the result (or the exception); the analyzer serves the next call
Respond ==
    /\ outcome /= "idle"
    /\ call' = NoCall
    /\ outcome' = "idle"
    /\ result' = NoResult
    /\ UNCHANGED store
    /\ UNCHANGED <<analyzer, snapshot, skill_analyzer, remembered>>

Next ==
    \/ ExtractAndMatchSkills
    \/ GetJobRequiredSkills
    \/ AnalyzeSkillGap
    \/ Respond

Spec == Init /\ [][Next]_vars

(***************************************************************************)
(* The learning-path builder and the categorizer called on their own, on   *)
(* lists of skill names.                                                   *)
(***************************************************************************)
PathSkillLists == UNION { [1..n -> PathSkills] : n \in 0..MaxPathLen }
PresentLists == UNION { [1..n -> PathSkills] : n \in 0..MaxPresent }

InitPath ==
    /\ snapshot = WrittenSnapshot(create_job_skill_mapping(<<>>))
    /\ skill_list = load_skill_data(snapshot).skill_list
    /\ skill_embeddings = load_skill_data(snapshot).skill_embeddings
    /\ job_skill_mapping = load_skill_data(snapshot).job_skill_mapping
    /\ similarity_threshold = 700
    /\ sbert_model = "all-MiniLM-L6-v2"
    /\ call = NoCall
    /\ outcome = "idle"
    /\ result = NoResult
    /\ skill_analyzer = "SkillGapAnalyzer"
    /\ remembered = NoMemory
    /\ NoStore

CreateLearningPath ==
    /\ outcome = "idle"
    /\ \E skills \in PathSkillLists :
        /\ call' = [op |-> "_create_learning_path", skills |-> skills]
        /\ outcome' = "returned"
        /\ result' = create_learning_path(skills)
    /\ UNCHANGED store
    /\ UNCHANGED <<analyzer, snapshot, skill_analyzer, remembered>>

CategorizeSkills ==
    /\ outcome = "idle"
    /\ \E present \in PresentLists, missing \in PathSkillLists :
        /\ call' = [op |-> "_categorize_skills", present |-> present, missing |-> missing]
        /\ outcome' = "returned"
        /\ result' = categorize_skills(present, missing)
    /\ UNCHANGED store
    /\ UNCHANGED <<analyzer, snapshot, skill_analyzer, remembered>>

NextPath ==
    \/ CreateLearningPath
    \/ CategorizeSkills
    \/ Respond

SpecPath == InitPath /\ [][NextPath]_vars

(***************************************************************************)
(* The learning-path builder and the categorizer called on skills named    *)
(* exactly as the keywords of their own tables.                            *)
(***************************************************************************)
KeywordSkillLists == UNION { [1..n -> KeywordSkills] : n \in 1..MaxNamed }
KeywordNameLists == UNION { [1..n -> KeywordNames] : n \in 1..MaxNamed }

CreateLearningPathOfKeywords ==
    /\ outcome = "idle"
    /\ \E skills \in KeywordSkillLists :
        /\ call' = [op |-> "_create_learning_path", skills |-> skills]
        /\ outcome' = "returned"
        /\ result' = create_learning_path(skills)
    /\ UNCHANGED store
    /\ UNCHANGED <<analyzer, snapshot, skill_analyzer, remembered>>

CategorizeKeywords ==
    /\ outcome = "idle"
    /\ \E missing \in KeywordNameLists :
        /\ call' = [op |-> "_categorize_skills", present |-> <<>>, missing |-> missing]
        /\ outcome' = "returned"
        /\ result' = categorize_skills(<<>>, missing)
    /\ UNCHANGED store
    /\ UNCHANGED <<analyzer, snapshot, skill_analyzer, remembered>>

NextKeywords ==
    \/ CreateLearningPathOfKeywords
    \/ CategorizeKeywords
    \/ Respond

SpecKeywords == InitPath /\ [][NextKeywords]_vars

(***************************************************************************)
(* _generate_recommendations called on its own, on three lists of missing  *)
(* skills long enough for both of its limits.                              *)
(***************************************************************************)
RecSkills == {"AWS", "Python"}
TierLists == UNION { [1..n -> RecSkills] : n \in 0..MaxTier }
NiceLists == UNION { [1..n -> RecSkills] : n \in 0..MaxNice }

GenerateRecommendations ==
    /\ outcome = "idle"
    /\ \E critical \in TierLists, important \in TierLists, nice_to_have \in NiceLists :
        /\ call' = [op |-> "_generate_recommendations", critical |-> critical,
                    important |-> important, nice_to_have |-> nice_to_have]
        /\ outcome' = "returned"
        /\ result' = generate_recommendations(critical, important, nice_to_have)
    /\ UNCHANGED store
    /\ UNCHANGED <<analyzer, snapshot, skill_analyzer, remembered>>

NextRecommend ==
    \/ GenerateRecommendations
    \/ Respond

SpecRecommend == InitPath /\ [][NextRecommend]_vars

(***************************************************************************)
(* One loaded analyzer serving a sequence of calls of every kind, with an  *)
(* earlier call remembered so that a later one can be compared with it.    *)
(***************************************************************************)
\* the Skills.csv the job table is built from
CallsDf ==
    <<CsvRow("Data Analyst", "Python", "Y", "N"), CsvRow("Data Analyst", "SQL", "Y", "Y"),
      CsvRow("Web Developer", "Python", "Y", "Y")>>

\* the skill lists of a batch
BatchItems == {<<>>, <<"python">>, <<"pyhton", "cobol">>}
SkillLists == UNION { [1..n -> BatchItems] : n \in 0..MaxBatch }

\* the lists of vocabulary names _generate_recommendations hands to _create_learning_path
MissingLists == UNION { [1..n -> Range(Vocabulary)] : n \in 0..MaxCands }

\* results.append(self.analyze_skill_gap(skills, target_job)) for each list
batch_analyze_skills(self, skill_lists, target_job) ==
    [i \in 1..Len(skill_lists) |-> analyze_skill_gap(self, skill_lists[i], target_job)]

\* the batch raises as soon as one of its analyses does
BatchRaises(self, skill_lists, target_job, encode_ok) ==
    \E i \in 1..Len(skill_lists) :
        AnalyzeRaises(self, skill_lists[i], target_job, encode_ok)

\* the analyses of the batch that get as far as the lookup of the job: those
\* before the first one that raises, and that one unless its matching raised
ReachLookup(self, skill_lists, target_job, encode_ok) ==
    { i \in 1..Len(skill_lists) :
        /\ ~MatchRaises(skill_lists[i], encode_ok)
        /\ \A j \in 1..(i - 1) :
              ~AnalyzeRaises(self, skill_lists[j], target_job, encode_ok) }

\* the job table after n lookups of the job
RECURSIVE Lookups(_, _, _)
Lookups(mapping, target_job, n) ==
    IF n = 0 THEN mapping
    ELSE Lookups(MappingAfterLookup(mapping, target_job), target_job, n - 1)

\* self.job_skill_mapping after the batch: one lookup per analysis that got that far
BatchMapping(self, skill_lists, target_job, encode_ok) ==
    Lookups(self.job_skill_mapping, target_job,
            Cardinality(ReachLookup(self, skill_lists, target_job, encode_ok)))

InitCalls ==
    /\ snapshot = WrittenSnapshot(create_job_skill_mapping(CallsDf))
    /\ skill_list = load_skill_data(snapshot).skill_list
    /\ skill_embeddings = load_skill_data(snapshot).skill_embeddings
    /\ job_skill_mapping = load_skill_data(snapshot).job_skill_mapping
    /\ similarity_threshold = 700
    /\ sbert_model = "all-MiniLM-L6-v2"
    /\ call = NoCall
    /\ outcome = "idle"
    /\ result = NoResult
    /\ skill_analyzer = "SkillGapAnalyzer"
    /\ remembered = NoMemory
    /\ NoStore

BatchAnalyzeSkills ==
    /\ outcome = "idle"
    /\ \E skill_lists \in SkillLists, target_job \in TargetJobs, encode_ok \in BOOLEAN :
        /\ call' = [op |-> "batch_analyze_skills", skill_lists |-> skill_lists,
                    target_job |-> target_job, encode_ok |-> encode_ok]
        /\ IF BatchRaises(Self, skill_lists, target_job, encode_ok)
           THEN outcome' = "raised" /\ result' = NoResult
           ELSE /\ outcome' = "returned"
                /\ result' = batch_analyze_skills(Self, skill_lists, target_job)
        /\ job_skill_mapping' = BatchMapping(Self, skill_lists, target_job, encode_ok)
    /\ remembered' = Noting(call')
    /\ UNCHANGED store
    /\ UNCHANGED <<skill_list, skill_embeddings, similarity_threshold, sbert_model,
                   snapshot, skill_analyzer>>

\* _create_learning_path on a list of missing required skills
BuildLearningPath ==
    /\ outcome = "idle"
    /\ \E skills \in MissingLists :
        /\ call' = [op |-> "_create_learning_path", skills |-> skills]
        /\ outcome' = "returned"
        /\ result' = create_learning_path(skills)
    /\ remembered' = Noting(call')
    /\ UNCHANGED store
    /\ UNCHANGED <<analyzer, snapshot, skill_analyzer>>

\* the caller takes the result of a matching or an analysis and keeps it for comparison
RespondAndRemember ==
    /\ outcome /= "idle"
    /\ remembered = NoMemory
    /\ call.op \in {"extract_and_match_skills", "analyze_skill_gap"}
    /\ remembered' = [call |-> call, outcome |-> outcome, result |-> result,
                      others |-> FALSE]
    /\ call' = NoCall
    /\ outcome' = "idle"
    /\ result' = NoResult
    /\ UNCHANGED store
    /\ UNCHANGED <<analyzer, snapshot, skill_analyzer>>

NextCalls ==
    \/ ExtractAndMatchSkills
    \/ GetJobRequiredSkills
    \/ AnalyzeSkillGap
    \/ BatchAnalyzeSkills
    \/ BuildLearningPath
    \/ Respond
    \/ RespondAndRemember

SpecCalls == InitCalls /\ [][NextCalls]_vars

(***************************************************************************)
(* The API process: the analyzer is built on the first analysis request,   *)
(* from whatever the two files hold then (api/analysis.py).                *)
(***************************************************************************)
\* the files on disk: as written, with an embedding row short, or unreadable
Snapshots ==
    { [embeddings_readable |-> e, mapping_readable |-> m,
       skills |-> Vocabulary, embeddings |-> Embeddings(n),
       mapping |-> create_job_skill_mapping(CallsDf)] :
        e \in BOOLEAN, m \in BOOLEAN, n \in {Len(Vocabulary) - 1, Len(Vocabulary)} }

\* the job_professions table and the GetJobRequiredSkills procedure of the database
DbJobs == {"Data Analyst", "Web Developer"}

DbJobSkills(job_id) ==
    CASE job_id = "Data Analyst" ->
            <<[name |-> "Python", importance_level |-> "Critical"],
              [name |-> "SQL", importance_level |-> "Important"]>>
      [] job_id = "Web Developer" ->
            <<[name |-> "Python", importance_level |-> "Nice-to-have"]>>
      [] OTHER -> <<>>

categorize_skill_basic(skill) ==
    LET skill_lower == lower(Chars(skill))
    IN  IF AnyIn(<<"python", "java", "javascript", "programming">>, skill_lower)
        THEN "Programming Languages"
        ELSE IF AnyIn(<<"machine learning", "ai", "data science">>, skill_lower)
        THEN "Data Science"
        ELSE IF AnyIn(<<"sql", "database", "mysql">>, skill_lower)
        THEN "Database"
        ELSE IF AnyIn(<<"cloud", "aws", "azure">>, skill_lower)
        THEN "Cloud Computing"
        ELSE "Other"

estimate_learning_time_basic(skill) ==
    LET skill_lower == lower(Chars(skill))
    IN  IF AnyIn(<<"python", "java", "programming">>, skill_lower) THEN 8
        ELSE IF AnyIn(<<"machine learning", "ai">>, skill_lower) THEN 12
        ELSE IF AnyIn(<<"sql", "database">>, skill_lower) THEN 4
        ELSE 6

create_basic_learning_path(skills) ==
    [i \in 1..Len(skills) |->
        [skill |-> skills[i],
         category |-> categorize_skill_basic(skills[i]),
         estimated_weeks |-> estimate_learning_time_basic(skills[i]),
         prerequisites |-> <<>>]]

\* the fallback analysis: database requirements and substring tests, no vocabulary
perform_basic_analysis(resume_skills, target_job_id, job_name) ==
    LET required_skills_data == DbJobSkills(target_job_id)
        required_skills ==
            [i \in 1..Len(required_skills_data) |-> required_skills_data[i].name]
        present(required_skill) ==
            \E i \in 1..Len(resume_skills) :
                IsSubstring(lower(Chars(required_skill)), lower(Chars(resume_skills[i])))
        missing(required_skill) == ~present(required_skill)
        present_skills == SelectSeq(required_skills, present)
        missing_skills == SelectSeq(required_skills, missing)
        critical(skill_data) ==
            /\ Contains(missing_skills, skill_data.name)
            /\ skill_data.importance_level = "Critical"
        important(skill_data) ==
            /\ Contains(missing_skills, skill_data.name)
            /\ skill_data.importance_level = "Important"
        nice(skill_data) ==
            /\ Contains(missing_skills, skill_data.name)
            /\ skill_data.importance_level \notin {"Critical", "Important"}
        names(data) == [i \in 1..Len(data) |-> data[i].name]
        critical_missing == names(SelectSeq(required_skills_data, critical))
        important_missing == names(SelectSeq(required_skills_data, important))
        nice_to_have_missing == names(SelectSeq(required_skills_data, nice))
    IN  [target_job |-> job_name,
         proficiency_score |->
             [num |-> Len(present_skills) * 100, den |-> Max(Len(required_skills), 1)],
         total_required_skills |-> Len(required_skills),
         skills_present |-> Len(present_skills),
         present_skills |-> present_skills,
         missing_skills |-> missing_skills,
         critical_missing |-> critical_missing,
         important_missing |-> important_missing,
         nice_to_have_missing |-> nice_to_have_missing,
         recommendations |->
             Prioritised(critical_missing, "Critical", "Essential skill for this role")
             \o Prioritised(Prefix(important_missing, 5), "Important",
                            "Important skill for career growth"),
         learning_path |->
             create_basic_learning_path(critical_missing \o Prefix(important_missing, 3))]

\* the process starts with no analyzer; self.skill_list = [] and so on stand for no object
InitLoad ==
    /\ snapshot \in Snapshots
    /\ skill_list = <<>>
    /\ skill_embeddings = <<>>
    /\ job_skill_mapping = <<>>
    /\ similarity_threshold = 700
    /\ sbert_model = "all-MiniLM-L6-v2"
    /\ call = NoCall
    /\ outcome = "idle"
    /\ result = NoResult
    /\ skill_analyzer = "None"
    /\ remembered = NoMemory
    /\ NoStore

\* SkillGapAnalyzer(...) called directly, as main() does; the global is not involved
ConstructAnalyzer ==
    /\ outcome = "idle"
    /\ skill_analyzer = "None"
    /\ call' = [op |-> "SkillGapAnalyzer"]
    /\ result' = NoResult
    /\ LET loaded == load_skill_data(snapshot)
       IN  IF loaded.raised
           THEN /\ outcome' = "raised"
                /\ skill_list' = <<>>
                /\ skill_embeddings' = <<>>
                /\ job_skill_mapping' = <<>>
           ELSE /\ outcome' = "returned"
                /\ skill_list' = loaded.skill_list
                /\ skill_embeddings' = loaded.skill_embeddings
                /\ job_skill_mapping' = loaded.job_skill_mapping
    /\ UNCHANGED store
    /\ UNCHANGED <<similarity_threshold, sbert_model, snapshot, skill_analyzer, remembered>>

\* get_skill_analyzer: the analyzer it returns, built if there was none; None
\* when the construction raised
get_skill_analyzer ==
    LET loaded == load_skill_data(snapshot)
    IN  IF skill_analyzer /= "None" THEN [found |-> TRUE, self |-> Self]
        ELSE IF loaded.raised THEN [found |-> FALSE, self |-> Self]
        ELSE [found |-> TRUE,
              self |-> [Self EXCEPT !.skill_list = loaded.skill_list,
                                    !.skill_embeddings = loaded.skill_embeddings,
                                    !.job_skill_mapping = loaded.job_skill_mapping]]

\* the request handler's work; resume_skills are the skills it finds for the resume
PerformSkillGapAnalysis ==
    /\ outcome = "idle"
    /\ \E resume_found \in BOOLEAN, target_job \in TargetJobs,
          resume_skills \in ResumeSkills, encode_ok \in BOOLEAN :
        /\ call' = [op |-> "perform_skill_gap_analysis", resume_found |-> resume_found,
                    resume_skills |-> resume_skills, target_job |-> target_job,
                    encode_ok |-> encode_ok]
        /\ IF ~resume_found \/ target_job \notin DbJobs
           THEN /\ outcome' = "raised"
                /\ result' = NoResult
                /\ UNCHANGED <<skill_list, skill_embeddings, job_skill_mapping,
                               skill_analyzer>>
           ELSE LET got == get_skill_analyzer
                    analyzer_obj == got.self
                IN  /\ skill_analyzer' = IF got.found THEN "SkillGapAnalyzer" ELSE "None"
                    /\ skill_list' = analyzer_obj.skill_list
                    /\ skill_embeddings' = analyzer_obj.skill_embeddings
                    /\ job_skill_mapping' =
                         IF got.found /\ ~MatchRaises(resume_skills, encode_ok)
                         THEN MappingAfterLookup(analyzer_obj.job_skill_mapping, target_job)
                         ELSE analyzer_obj.job_skill_mapping
                    /\ IF got.found
                       THEN IF AnalyzeRaises(analyzer_obj, resume_skills, target_job,
                                             encode_ok)
                            THEN outcome' = "raised" /\ result' = NoResult
                            ELSE /\ outcome' = "returned"
                                 /\ result' =
                                      [analysis |->
                                           analyze_skill_gap(analyzer_obj, resume_skills,
                                                             target_job),
                                       visualizations |-> "create_skill_gap_visualization"]
                       ELSE /\ outcome' = "returned"
                            /\ result' =
                                 [analysis |->
                                      perform_basic_analysis(resume_skills, target_job,
                                                             target_job),
                                  visualizations |-> "create_basic_visualizations"]
    /\ UNCHANGED store
    /\ UNCHANGED <<similarity_threshold, sbert_model, snapshot, remembered>>

NextLoad ==
    \/ ConstructAnalyzer
    \/ PerformSkillGapAnalysis
    \/ Respond

SpecLoad == InitLoad /\ [][NextLoad]_vars

(***************************************************************************)
(* SkillDataPreprocessor._remove_overlapping_skills on lists of matches.   *)
(* A match is a dict with 'text', 'start', 'end' and 'confidence'          *)
(* (thousandths); 'label' is always 'SKILL' and left out.                  *)
(***************************************************************************)

\* spans as extract_skills_from_text builds them, end = start + length: a chain
\* of three, one that covers them all, and the empty span of an empty skill
Spans == { <<0, 2>>, <<1, 3>>, <<2, 4>>, <<0, 4>>, <<3, 3>> }
Confidences == {800, 1000}

Matches ==
    { [text |-> "Python", start |-> sp[1], end |-> sp[2], confidence |-> c] :
        sp \in Spans, c \in Confidences }

MatchLists == UNION { [1..n -> Matches] : n \in 0..MaxMatches }

\* skill['start'] < accepted['end'] and skill['end'] > accepted['start']
Overlap(skill, accepted) ==
    skill.start < accepted.end /\ skill.end > accepted.start

RECURSIVE InsertByConfidence(_, _)
\* s into a list sorted by descending confidence, after its equals
InsertByConfidence(sorted, s) ==
    IF sorted = <<>> THEN <<s>>
    ELSE IF Head(sorted).confidence >= s.confidence
    THEN <<Head(sorted)>> \o InsertByConfidence(Tail(sorted), s)
    ELSE <<s>> \o sorted

RECURSIVE SortedFrom(_, _, _)
SortedFrom(skills, i, sorted) ==
    IF i > Len(skills) THEN sorted
    ELSE SortedFrom(skills, i + 1, InsertByConfidence(sorted, skills[i]))

\* mutant: the list is taken in its own order
sorted_by_confidence_Unsorted(skills) == skills

\* sorted(skills, key=lambda x: x['confidence'], reverse=True): a stable sort
sorted_by_confidence(skills) == SortedFrom(skills, 1, <<>>)

\* mutant: a match is compared with the last accepted match only
OverlapsAccepted_LastOnly(skill, filtered_skills) ==
    /\ filtered_skills /= <<>>
    /\ Overlap(skill, filtered_skills[Len(filtered_skills)])

\* the inner loop over filtered_skills
OverlapsAccepted(skill, filtered_skills) ==
    \E i \in 1..Len(filtered_skills) : Overlap(skill, filtered_skills[i])

RECURSIVE FilterFrom(_, _, _)
FilterFrom(skills, i, filtered_skills) ==
    IF i > Len(skills) THEN filtered_skills
    ELSE FilterFrom(skills, i + 1,
                    IF OverlapsAccepted(skills[i], filtered_skills)
                    THEN filtered_skills
                    ELSE Append(filtered_skills, skills[i]))

remove_overlapping_skills(skills) ==
    IF skills = <<>> THEN skills
    ELSE FilterFrom(sorted_by_confidence(skills), 1, <<>>)

RemoveOverlappingSkills ==
    /\ outcome = "idle"
    /\ \E skills \in MatchLists :
        /\ call' = [op |-> "_remove_overlapping_skills", skills |-> skills]
        /\ outcome' = "returned"
        /\ result' = remove_overlapping_skills(skills)
    /\ UNCHANGED store
    /\ UNCHANGED <<analyzer, snapshot, skill_analyzer, remembered>>

NextOverlap ==
    \/ RemoveOverlappingSkills
    \/ Respond

SpecOverlap == InitPath /\ [][NextOverlap]_vars

(***************************************************************************)
(* extract_skills_from_text of demo_main.py: a table of regular            *)
(* expressions, each with the skill name it stands for.  A pattern is its  *)
(* position in the table, and a text is the set of the patterns that       *)
(* re.search finds in it.                                                  *)
(***************************************************************************)

\* the values of the dict skill_patterns, in the order of its keys
skill_patterns ==
    << "Java", "C++", "C#", "C", "JavaScript", "JavaScript", "TypeScript",
       "Python", "Dart", "PHP", "Ruby", "Kotlin", "Swift", "Scala", "Go",
       "R", "HTML", "CSS", "React.js", "Node.js", "Express.js", "Angular",
       "Vue.js", "Next.js", "MERN Stack", "Bootstrap", "Tailwind CSS",
       "SASS", "SCSS", "MySQL", "MongoDB", "MongoDB", "PostgreSQL",
       "PostgreSQL", "Redis", "SQLite", "Oracle", "SQL Server", "Flutter",
       "Firebase", "Android", "iOS", "React Native", "Django", "Flask",
       "FastAPI", "Spring", "Laravel", "AWS", "Azure", "Google Cloud",
       "Google Cloud Platform", "Docker", "Kubernetes", "Kubernetes", "Git",
       "GitHub", "GitLab", "OOP", "OOP", "Data Structures", "Algorithms",
       "Data Structures and Algorithms", "DBMS", "Database Design",
       "Problem Solving", "System Design", "Software Architecture",
       "Design Patterns", "Machine Learning", "Machine Learning",
       "Deep Learning", "Artificial Intelligence", "AI", "Data Analysis",
       "Data Science", "Unit Testing", "Test Driven Development", "Testing",
       "Debugging", "Agile", "Scrum", "DevOps", "CI/CD", "Linux", "Unix",
       "Windows", "macOS", "Ubuntu", "VS Code", "Visual Studio",
       "IntelliJ IDEA", "Eclipse", "TensorFlow", "PyTorch", "Pandas",
       "NumPy", "Scikit-learn", "Matplotlib", "Jupyter", "TCP/IP", "HTTP",
       "HTTPS", "SSL/TLS", "SSL/TLS", "GraphQL", "REST API",
       "API Development", "Microservices", "JSON", "XML" >>

\* the code points of a name, which str comparison goes by
ord_of(name) ==
    CASE name = "AI" -> << 65, 73 >>
      [] name = "API Development" -> << 65, 80, 73, 32, 68, 101, 118, 101, 108, 111, 112, 109, 101, 110, 116 >>
      [] name = "AWS" -> << 65, 87, 83 >>
      [] name = "Agile" -> << 65, 103, 105, 108, 101 >>
      [] name = "Algorithms" -> << 65, 108, 103, 111, 114, 105, 116, 104, 109, 115 >>
      [] name = "Android" -> << 65, 110, 100, 114, 111, 105, 100 >>
      [] name = "Angular" -> << 65, 110, 103, 117, 108, 97, 114 >>
      [] name = "Artificial Intelligence" -> << 65, 114, 116, 105, 102, 105, 99, 105, 97, 108, 32, 73, 110, 116, 101, 108, 108, 105, 103, 101, 110, 99, 101 >>
      [] name = "Azure" -> << 65, 122, 117, 114, 101 >>
      [] name = "Bootstrap" -> << 66, 111, 111, 116, 115, 116, 114, 97, 112 >>
      [] name = "C" -> << 67 >>
      [] name = "C#" -> << 67, 35 >>
      [] name = "C++" -> << 67, 43, 43 >>
      [] name = "CI/CD" -> << 67, 73, 47, 67, 68 >>
      [] name = "CSS" -> << 67, 83, 83 >>
      [] name = "DBMS" -> << 68, 66, 77, 83 >>
      [] name = "Dart" -> << 68, 97, 114, 116 >>
      [] name = "Data Analysis" -> << 68, 97, 116, 97, 32, 65, 110, 97, 108, 121, 115, 105, 115 >>
      [] name = "Data Science" -> << 68, 97, 116, 97, 32, 83, 99, 105, 101, 110, 99, 101 >>
      [] name = "Data Structures" -> << 68, 97, 116, 97, 32, 83, 116, 114, 117, 99, 116, 117, 114, 101, 115 >>
      [] name = "Data Structures and Algorithms" -> << 68, 97, 116, 97, 32, 83, 116, 114, 117, 99, 116, 117, 114, 101, 115, 32, 97, 110, 100, 32, 65, 108, 103, 111, 114, 105, 116, 104, 109, 115 >>
      [] name = "Database Design" -> << 68, 97, 116, 97, 98, 97, 115, 101, 32, 68, 101, 115, 105, 103, 110 >>
      [] name = "Debugging" -> << 68, 101, 98, 117, 103, 103, 105, 110, 103 >>
      [] name = "Deep Learning" -> << 68, 101, 101, 112, 32, 76, 101, 97, 114, 110, 105, 110, 103 >>
      [] name = "Design Patterns" -> << 68, 101, 115, 105, 103, 110, 32, 80, 97, 116, 116, 101, 114, 110, 115 >>
      [] name = "DevOps" -> << 68, 101, 118, 79, 112, 115 >>
      [] name = "Django" -> << 68, 106, 97, 110, 103, 111 >>
      [] name = "Docker" -> << 68, 111, 99, 107, 101, 114 >>
      [] name = "Eclipse" -> << 69, 99, 108, 105, 112, 115, 101 >>
      [] name = "Express.js" -> << 69, 120, 112, 114, 101, 115, 115, 46, 106, 115 >>
      [] name = "FastAPI" -> << 70, 97, 115, 116, 65, 80, 73 >>
      [] name = "Firebase" -> << 70, 105, 114, 101, 98, 97, 115, 101 >>
      [] name = "Flask" -> << 70, 108, 97, 115, 107 >>
      [] name = "Flutter" -> << 70, 108, 117, 116, 116, 101, 114 >>
      [] name = "Git" -> << 71, 105, 116 >>
      [] name = "GitHub" -> << 71, 105, 116, 72, 117, 98 >>
      [] name = "GitLab" -> << 71, 105, 116, 76, 97, 98 >>
      [] name = "Go" -> << 71, 111 >>
      [] name = "Google Cloud" -> << 71, 111, 111, 103, 108, 101, 32, 67, 108, 111, 117, 100 >>
      [] name = "Google Cloud Platform" -> << 71, 111, 111, 103, 108, 101, 32, 67, 108, 111, 117, 100, 32, 80, 108, 97, 116, 102, 111, 114, 109 >>
      [] name = "GraphQL" -> << 71, 114, 97, 112, 104, 81, 76 >>
      [] name = "HTML" -> << 72, 84, 77, 76 >>
      [] name = "HTTP" -> << 72, 84, 84, 80 >>
      [] name = "HTTPS" -> << 72, 84, 84, 80, 83 >>
      [] name = "IntelliJ IDEA" -> << 73, 110, 116, 101, 108, 108, 105, 74, 32, 73, 68, 69, 65 >>
      [] name = "JSON" -> << 74, 83, 79, 78 >>
      [] name = "Java" -> << 74, 97, 118, 97 >>
      [] name = "JavaScript" -> << 74, 97, 118, 97, 83, 99, 114, 105, 112, 116 >>
      [] name = "Jupyter" -> << 74, 117, 112, 121, 116, 101, 114 >>
      [] name = "Kotlin" -> << 75, 111, 116, 108, 105, 110 >>
      [] name = "Kubernetes" -> << 75, 117, 98, 101, 114, 110, 101, 116, 101, 115 >>
      [] name = "Laravel" -> << 76, 97, 114, 97, 118, 101, 108 >>
      [] name = "Linux" -> << 76, 105, 110, 117, 120 >>
      [] name = "MERN Stack" -> << 77, 69, 82, 78, 32, 83, 116, 97, 99, 107 >>
      [] name = "Machine Learning" -> << 77, 97, 99, 104, 105, 110, 101, 32, 76, 101, 97, 114, 110, 105, 110, 103 >>
      [] name = "Matplotlib" -> << 77, 97, 116, 112, 108, 111, 116, 108, 105, 98 >>
      [] name = "Microservices" -> << 77, 105, 99, 114, 111, 115, 101, 114, 118, 105, 99, 101, 115 >>
      [] name = "MongoDB" -> << 77, 111, 110, 103, 111, 68, 66 >>
      [] name = "MySQL" -> << 77, 121, 83, 81, 76 >>
      [] name = "Next.js" -> << 78, 101, 120, 116, 46, 106, 115 >>
      [] name = "Node.js" -> << 78, 111, 100, 101, 46, 106, 115 >>
      [] name = "NumPy" -> << 78, 117, 109, 80, 121 >>
      [] name = "OOP" -> << 79, 79, 80 >>
      [] name = "Oracle" -> << 79, 114, 97, 99, 108, 101 >>
      [] name = "PHP" -> << 80, 72, 80 >>
      [] name = "Pandas" -> << 80, 97, 110, 100, 97, 115 >>
      [] name = "PostgreSQL" -> << 80, 111, 115, 116, 103, 114, 101, 83, 81, 76 >>
      [] name = "Problem Solving" -> << 80, 114, 111, 98, 108, 101, 109, 32, 83, 111, 108, 118, 105, 110, 103 >>
      [] name = "PyTorch" -> << 80, 121, 84, 111, 114, 99, 104 >>
      [] name = "Python" -> << 80, 121, 116, 104, 111, 110 >>
      [] name = "R" -> << 82 >>
      [] name = "REST API" -> << 82, 69, 83, 84, 32, 65, 80, 73 >>
      [] name = "React Native" -> << 82, 101, 97, 99, 116, 32, 78, 97, 116, 105, 118, 101 >>
      [] name = "React.js" -> << 82, 101, 97, 99, 116, 46, 106, 115 >>
      [] name = "Redis" -> << 82, 101, 100, 105, 115 >>
      [] name = "Ruby" -> << 82, 117, 98, 121 >>
      [] name = "SASS" -> << 83, 65, 83, 83 >>
      [] name = "SCSS" -> << 83, 67, 83, 83 >>
      [] name = "SQL Server" -> << 83, 81, 76, 32, 83, 101, 114, 118, 101, 114 >>
      [] name = "SQLite" -> << 83, 81, 76, 105, 116, 101 >>
      [] name = "SSL/TLS" -> << 83, 83, 76, 47, 84, 76, 83 >>
      [] name = "Scala" -> << 83, 99, 97, 108, 97 >>
      [] name = "Scikit-learn" -> << 83, 99, 105, 107, 105, 116, 45, 108, 101, 97, 114, 110 >>
      [] name = "Scrum" -> << 83, 99, 114, 117, 109 >>
      [] name = "Software Architecture" -> << 83, 111, 102, 116, 119, 97, 114, 101, 32, 65, 114, 99, 104, 105, 116, 101, 99, 116, 117, 114, 101 >>
      [] name = "Spring" -> << 83, 112, 114, 105, 110, 103 >>
      [] name = "Swift" -> << 83, 119, 105, 102, 116 >>
      [] name = "System Design" -> << 83, 121, 115, 116, 101, 109, 32, 68, 101, 115, 105, 103, 110 >>
      [] name = "TCP/IP" -> << 84, 67, 80, 47, 73, 80 >>
      [] name = "Tailwind CSS" -> << 84, 97, 105, 108, 119, 105, 110, 100, 32, 67, 83, 83 >>
      [] name = "TensorFlow" -> << 84, 101, 110, 115, 111, 114, 70, 108, 111, 119 >>
      [] name = "Test Driven Development" -> << 84, 101, 115, 116, 32, 68, 114, 105, 118, 101, 110, 32, 68, 101, 118, 101, 108, 111, 112, 109, 101, 110, 116 >>
      [] name = "Testing" -> << 84, 101, 115, 116, 105, 110, 103 >>
      [] name = "TypeScript" -> << 84, 121, 112, 101, 83, 99, 114, 105, 112, 116 >>
      [] name = "Ubuntu" -> << 85, 98, 117, 110, 116, 117 >>
      [] name = "Unit Testing" -> << 85, 110, 105, 116, 32, 84, 101, 115, 116, 105, 110, 103 >>
      [] name = "Unix" -> << 85, 110, 105, 120 >>
      [] name = "VS Code" -> << 86, 83, 32, 67, 111, 100, 101 >>
      [] name = "Visual Studio" -> << 86, 105, 115, 117, 97, 108, 32, 83, 116, 117, 100, 105, 111 >>
      [] name = "Vue.js" -> << 86, 117, 101, 46, 106, 115 >>
      [] name = "Windows" -> << 87, 105, 110, 100, 111, 119, 115 >>
      [] name = "XML" -> << 88, 77, 76 >>
      [] name = "iOS" -> << 105, 79, 83 >>
      [] name = "macOS" -> << 109, 97, 99, 79, 83 >>

SkillNamesOfPatterns == Range(skill_patterns)

OrdTable == [name \in SkillNamesOfPatterns |-> ord_of(name)]

RECURSIVE SeqLess(_, _)
\* a < b on sequences of code points
SeqLess(a, b) ==
    IF b = <<>> THEN FALSE
    ELSE IF a = <<>> THEN TRUE
    ELSE IF Head(a) /= Head(b) THEN Head(a) < Head(b)
    ELSE SeqLess(Tail(a), Tail(b))

StrLess(a, b) == SeqLess(OrdTable[a], OrdTable[b])

RECURSIVE sorted(_)
\* sorted(list(set(...))) on a set of names
sorted(names) ==
    IF names = {} THEN <<>>
    ELSE LET least == CHOOSE x \in names : \A y \in names \ {x} : StrLess(x, y)
         IN  <<least>> \o sorted(names \ {least})

\* the names of the patterns found in the text
found_skills(text) == { skill_patterns[pattern] : pattern \in text }

extract_skills_from_text(text) ==
    LET skills_list == sorted(found_skills(text))
    IN  IF skills_list = <<>> THEN <<>> ELSE Prefix(skills_list, 30)

\* texts in which the patterns of one stretch of the table are found
Stretches == {1, 20, 40, 60, 77}
Texts == { start..(start + n - 1) : start \in Stretches, n \in 0..MaxMentioned }

ExtractSkillsFromText ==
    /\ outcome = "idle"
    /\ \E text \in Texts :
        /\ call' = [op |-> "extract_skills_from_text", text |-> text]
        /\ outcome' = "returned"
        /\ result' = extract_skills_from_text(text)
    /\ UNCHANGED store
    /\ UNCHANGED <<analyzer, snapshot, skill_analyzer, remembered>>

NextPatterns ==
    \/ ExtractSkillsFromText
    \/ Respond

SpecPatterns == InitPath /\ [][NextPatterns]_vars

(***************************************************************************)
(* POST /analysis/analyze: the endpoint checks the resume and the job,     *)
(* runs perform_skill_gap_analysis and converts its result to the          *)
(* response.                                                               *)
(***************************************************************************)

\* what `for rec in result['analysis'].get('recommendations', [])` visits: the
\* elements of a list, the keys of a dict
Visited(recommendations, is_dict) ==
    IF is_dict THEN <<"priority_order", "learning_path", "estimated_time">>
    ELSE recommendations

\* rec['skill'] raises TypeError on a str, and the first element visited decides
RecommendationRaises(recommendations, is_dict) ==
    Visited(recommendations, is_dict) /= <<>> /\ is_dict

\* SkillGapAnalysisResult(...) of the endpoint: the recommendations and the
\* learning_path it builds from the analysis dict, or the exception of the
\* conversion. from_analyzer: the dict is the value of analyze_skill_gap, whose
\* 'recommendations' is a dict and which has no key 'learning_path'
to_response(analysis, from_analyzer) ==
    IF RecommendationRaises(analysis.recommendations, from_analyzer)
    THEN [raised |-> TRUE, recommendations |-> <<>>, learning_path |-> <<>>]
    ELSE [raised |-> FALSE,
          recommendations |->
              [i \in 1..Len(analysis.recommendations) |->
                  [skill |-> analysis.recommendations[i].skill,
                   priority |-> analysis.recommendations[i].priority,
                   reason |-> analysis.recommendations[i].reason]],
          learning_path |-> IF from_analyzer THEN <<>> ELSE analysis.learning_path]

NoAnalysis == [source |-> "none"]

AnalyzeEndpoint ==
    /\ outcome = "idle"
    /\ \E resume_exists \in BOOLEAN, target_job \in TargetJobs,
          resume_skills \in ResumeSkills, encode_ok \in BOOLEAN :
        /\ call' = [op |-> "POST /analysis/analyze", resume_exists |-> resume_exists,
                    resume_skills |-> resume_skills, target_job |-> target_job,
                    encode_ok |-> encode_ok]
        /\ IF ~resume_exists \/ target_job \notin DbJobs
           THEN /\ outcome' = "raised"
                /\ result' = [status |-> 404, computed |-> NoAnalysis]
                /\ UNCHANGED <<skill_list, skill_embeddings, job_skill_mapping,
                               skill_analyzer>>
           ELSE LET got == get_skill_analyzer
                    analyzer_obj == got.self
                    raises == got.found /\ AnalyzeRaises(analyzer_obj, resume_skills,
                                                         target_job, encode_ok)
                IN  /\ skill_analyzer' = IF got.found THEN "SkillGapAnalyzer" ELSE "None"
                    /\ skill_list' = analyzer_obj.skill_list
                    /\ skill_embeddings' = analyzer_obj.skill_embeddings
                    /\ job_skill_mapping' =
                         IF got.found /\ ~MatchRaises(resume_skills, encode_ok)
                         THEN MappingAfterLookup(analyzer_obj.job_skill_mapping, target_job)
                         ELSE analyzer_obj.job_skill_mapping
                    /\ IF raises
                       THEN /\ outcome' = "raised"
                            /\ result' = [status |-> 500, computed |-> NoAnalysis]
                       ELSE \E analysis \in
                                { IF got.found
                                  THEN analyze_skill_gap(analyzer_obj, resume_skills,
                                                         target_job)
                                  ELSE perform_basic_analysis(resume_skills, target_job,
                                                              target_job) } :
                            \E response \in { to_response(analysis, got.found) } :
                            LET computed ==
                                    [source |-> IF got.found THEN "analyze_skill_gap"
                                                ELSE "perform_basic_analysis",
                                     analysis |-> analysis]
                            IN  IF response.raised
                                THEN /\ outcome' = "raised"
                                     /\ result' = [status |-> 500, computed |-> computed]
                                ELSE /\ outcome' = "returned"
                                     /\ result' =
                                          [status |-> 201, computed |-> computed,
                                           recommendations |-> response.recommendations,
                                           learning_path |-> response.learning_path]
    /\ UNCHANGED store
    /\ UNCHANGED <<similarity_threshold, sbert_model, snapshot, remembered>>

NextEndpoint ==
    \/ AnalyzeEndpoint
    \/ Respond

SpecEndpoint == InitLoad /\ [][NextEndpoint]_vars

(***************************************************************************)
(* api/resumes.py: upload, reprocess and the background task               *)
(* process_resume_skills.  The handlers and the task are coroutines        *)
(* without an await in their bodies, run by one event loop: each runs as   *)
(* one step, and a task runs at some later step than the request that      *)
(* scheduled it.                                                           *)
(***************************************************************************)
ResumeIds == {"resume-1"}
ResumeTexts == {"Python, SQL"}

\* get_all_skills(): the skills table, ORDER BY name
get_all_skills == <<"Java", "Python", "SQL">>

\* get_skill_by_name: the skill's record, if there is one
get_skill_by_name(skill_name) == Contains(get_all_skills, skill_name)

\* what extractor.extract_skills may find in a text
RawSkillLists == { <<"Python", "Rust">> }

\* the extractor's branch: the skills found that the database knows
SkillsFromExtractor(raw_skills) ==
    LET known(text) == get_skill_by_name(text)
        found == SelectSeq(raw_skills, known)
    IN  [i \in 1..Len(found) |-> [skill_id |-> found[i], original_text |-> found[i]]]

\* the fallback branch: the names of the skills table that occur in the text
SkillsByKeyword(resume_text) ==
    LET resume_text_lower == lower(Chars(resume_text))
        occurs(name) == IsSubstring(lower(Chars(name)), resume_text_lower)
        found == SelectSeq(get_all_skills, occurs)
    IN  [i \in 1..Len(found) |-> [skill_id |-> found[i], original_text |-> found[i]]]

\* the skills_data one run may build: with the extractor or without it
SkillsData(resume_text) ==
    {SkillsByKeyword(resume_text)} \cup { SkillsFromExtractor(raw) : raw \in RawSkillLists }

\* save_resume: INSERT INTO resumes (...) VALUES (..., FALSE)
save_resume(table, resume_id, raw_text) ==
    [id \in DOMAIN table \cup {resume_id} |->
        IF id = resume_id THEN [raw_text |-> raw_text, processed |-> FALSE]
        ELSE table[id]]

\* UPDATE resumes SET processed = %s WHERE id = %s
update_resume_processed_status(table, resume_id, processed) ==
    [id \in DOMAIN table |->
        IF id = resume_id THEN [table[id] EXCEPT !.processed = processed]
        ELSE table[id]]

\* save_resume_skills, stopped by an exception after `saved` rows when saved
\* is less than the length of skills_data
save_resume_skills(rows, resume_id, skills_data, saved) ==
    rows \o [i \in 1..saved |->
                [resume_id |-> resume_id, skill_id |-> skills_data[i].skill_id]]

\* DELETE FROM resume_skills WHERE resume_id = %s
delete_resume_skills(rows, resume_id) ==
    LET other(row) == row.resume_id /= resume_id
    IN  SelectSeq(rows, other)

\* mutant: the handler only logs the error
HandleError_LogsOnly(table, resume_id) == table

\* the except branch of process_resume_skills
HandleError(table, resume_id) == update_resume_processed_status(table, resume_id, TRUE)

Task(resume_id, resume_text) ==
    [resume_id |-> resume_id, resume_text |-> resume_text, pc |-> "scheduled",
     skills_data |-> <<>>, saved |-> 0, raised |-> FALSE, before_reprocess |-> FALSE]

UploadResume ==
    /\ \E resume_id \in ResumeIds \ DOMAIN resumes, raw_text \in ResumeTexts :
        /\ resumes' = save_resume(resumes, resume_id, raw_text)
        /\ background_tasks' = Append(background_tasks, Task(resume_id, raw_text))
    /\ UNCHANGED <<resume_skills_table, reprocessed>>
    /\ UNCHANGED <<analyzer, call, outcome, result, snapshot, skill_analyzer, remembered>>

ReprocessResume ==
    /\ reprocessed < MaxReprocess
    /\ \E resume_id \in DOMAIN resumes :
        /\ resume_skills_table' = delete_resume_skills(resume_skills_table, resume_id)
        /\ resumes' = update_resume_processed_status(resumes, resume_id, FALSE)
        /\ background_tasks' =
             Append(background_tasks, Task(resume_id, resumes[resume_id].raw_text))
    /\ reprocessed' = reprocessed + 1
    /\ UNCHANGED <<analyzer, call, outcome, result, snapshot, skill_analyzer, remembered>>

\* one run of process_resume_skills: the extraction raises, or the saving
\* raises after some rows, or both succeed
ProcessResumeSkills(t) ==
    /\ t \in 1..Len(background_tasks)
    /\ background_tasks[t].pc = "scheduled"
    /\ LET task == background_tasks[t]
       IN  \E extracted \in BOOLEAN, skills_data \in SkillsData(task.resume_text) :
           \E saved \in 0..Len(skills_data) :
             /\ ~extracted => saved = 0
             /\ LET raised == ~extracted \/ saved < Len(skills_data)
                    data == IF extracted THEN skills_data ELSE <<>>
                IN  /\ resume_skills_table' =
                         save_resume_skills(resume_skills_table, task.resume_id, data, saved)
                    /\ resumes' =
                         IF raised THEN HandleError(resumes, task.resume_id)
                         ELSE update_resume_processed_status(resumes, task.resume_id, TRUE)
                    /\ background_tasks' =
                         [background_tasks EXCEPT ![t] =
                            [task EXCEPT !.pc = "done", !.skills_data = data,
                                         !.saved = saved, !.raised = raised,
                                         !.before_reprocess = (reprocessed = 0)]]
    /\ UNCHANGED reprocessed
    /\ UNCHANGED <<analyzer, call, outcome, result, snapshot, skill_analyzer, remembered>>

RunTask == \E t \in 1..(MaxReprocess + 1) : ProcessResumeSkills(t)

NextResumes ==
    \/ UploadResume
    \/ ReprocessResume
    \/ RunTask

\* a task added to the response's BackgroundTasks is run once the response is sent
SpecResumes ==
    /\ InitPath
    /\ [][NextResumes]_vars
    /\ \A t \in 1..(MaxReprocess + 1) : WF_vars(ProcessResumeSkills(t))

(***************************************************************************)
(* Vocabulary of the properties.                                           *)
(***************************************************************************)

NoDuplicates(list) == \A i, j \in 1..Len(list) : list[i] = list[j] => i = j

AnalysisReturned == call.op = "analyze_skill_gap" /\ outcome = "returned"

MatchReturned == call.op = "extract_and_match_skills" /\ outcome = "returned"

\* the requirement entries of the target job in the job table
JobEntries(job) ==
    IF job \in DOMAIN job_skill_mapping THEN Range(job_skill_mapping[job].skills) ELSE {}

\* the list of required skill names of the target job, duplicates included
RequiredList(job) ==
    IF job \in DOMAIN job_skill_mapping
    THEN [i \in 1..Len(job_skill_mapping[job].skills) |-> job_skill_mapping[job].skills[i].skill]
    ELSE <<>>

RequiredNames(job) == { e.skill : e \in JobEntries(job) }

\* the matches a returned call emitted
EmittedMatches ==
    IF MatchReturned THEN result
    ELSE IF AnalysisReturned THEN result.matched_skills
    ELSE <<>>

MatchedNames == { EmittedMatches[i].matched_skill : i \in 1..Len(EmittedMatches) }

SetMax(S) == CHOOSE x \in S : \A y \in S : y <= x

\* the highest cosine similarity of a candidate over the vocabulary
BestSemantic(candidate) ==
    SetMax({ cosine_similarity(sbert_model, candidate, skill_embeddings[j]) :
                j \in 1..Len(skill_list) })

\* the highest lexical ratio of a candidate over the vocabulary
BestLexical(candidate) ==
    SetMax({ FuzzRatio(candidate, skill_list[j]) * 10 : j \in 1..Len(skill_list) })

\* the list without the repetitions of a name, in the order of first appearance
RECURSIVE Dedup(_)
Dedup(list) ==
    IF list = <<>> THEN <<>>
    ELSE LET front == Dedup(SubSeq(list, 1, Len(list) - 1))
             last == list[Len(list)]
         IN  IF Contains(front, last) THEN front ELSE Append(front, last)

(***************************************************************************)
(* C1: in every result of analyze_skill_gap no skill name is both in       *)
(* present_skills and in missing_skills, the two together hold exactly the *)
(* skill names the target job requires, and a required skill is present    *)
(* iff it is among the matched skill names.                                *)
(***************************************************************************)
C1_PresentMissingPartition ==
    AnalysisReturned =>
        LET present == Range(result.present_skills)
            missing == Range(result.missing_skills)
            required == RequiredNames(call.target_job)
        IN  /\ present \cap missing = {}
            /\ present \cup missing = required
            /\ \A s \in required : s \in present <=> s \in MatchedNames

C1_Witness ==
    /\ AnalysisReturned
    /\ result.present_skills /= <<>>
    /\ result.missing_skills /= <<>>

(***************************************************************************)
(* C2: in every result of analyze_skill_gap the three tiers                *)
(* critical_missing, important_missing and nice_to_have_missing together   *)
(* hold exactly the names of missing_skills, and no name is in two tiers.  *)
(***************************************************************************)
C2_TiersPartitionMissing ==
    AnalysisReturned =>
        LET critical == Range(result.critical_missing)
            important == Range(result.important_missing)
            nice == Range(result.nice_to_have_missing)
        IN  /\ critical \cup important \cup nice = Range(result.missing_skills)
            /\ critical \cap important = {}
            /\ critical \cap nice = {}
            /\ important \cap nice = {}

C2_Witness ==
    /\ AnalysisReturned
    /\ result.critical_missing /= <<>>
    /\ result.important_missing /= <<>>

(***************************************************************************)
(* C3: for a job table built by create_job_skill_mapping, a missing skill  *)
(* is critical iff one requirement entry of the target job for it has both *)
(* flags true, important iff it is not critical and one entry has exactly  *)
(* one flag true, nice-to-have iff no entry has either flag true.          *)
(***************************************************************************)
C3_TierFollowsEntryFlags ==
    AnalysisReturned =>
        \A s \in Range(result.missing_skills) :
            LET entries == { e \in JobEntries(call.target_job) : e.skill = s }
                critical == s \in Range(result.critical_missing)
            IN  /\ critical <=> \E e \in entries : e.is_hot_tech /\ e.is_in_demand
                /\ s \in Range(result.important_missing) <=>
                      /\ ~critical
                      /\ \E e \in entries : e.is_hot_tech /= e.is_in_demand
                /\ s \in Range(result.nice_to_have_missing) <=>
                      \A e \in entries : ~e.is_hot_tech /\ ~e.is_in_demand

(***************************************************************************)
(* C4: proficiency_score is 100 * P / max(D, 1), D the number of distinct  *)
(* skill names the target job requires and P the number of those names     *)
(* that are among the matched skill names.                                 *)
(***************************************************************************)
C4_ScoreOverDistinctRequired ==
    AnalysisReturned =>
        LET required == RequiredNames(call.target_job)
            D == Cardinality(required)
            P == Cardinality(required \cap MatchedNames)
        IN  result.proficiency_score.num * Max(D, 1) = 100 * P * result.proficiency_score.den

(***************************************************************************)
(* C5: total_required_skills is the number of distinct skill names of the  *)
(* target job's entries, and present_skills and missing_skills hold a name *)
(* at most once, in the order of the names' first appearance.              *)
(***************************************************************************)
C5_RequiredListDeduplicated ==
    AnalysisReturned =>
        LET dedup == Dedup(RequiredList(call.target_job))
            matched(s) == s \in MatchedNames
            unmatched(s) == s \notin MatchedNames
        IN  /\ result.total_required_skills = Cardinality(RequiredNames(call.target_job))
            /\ result.present_skills = SelectSeq(dedup, matched)
            /\ result.missing_skills = SelectSeq(dedup, unmatched)

(***************************************************************************)
(* C6: when the required-skill list of the target job is non-empty and     *)
(* without duplicates, proficiency_score is between 0 and 100.             *)
(***************************************************************************)
C6_ScoreWithinRange ==
    (/\ AnalysisReturned
     /\ RequiredList(call.target_job) /= <<>>
     /\ NoDuplicates(RequiredList(call.target_job)))
    => /\ result.proficiency_score.den > 0
       /\ 0 <= result.proficiency_score.num
       /\ result.proficiency_score.num <= 100 * result.proficiency_score.den

C6_Witness ==
    /\ AnalysisReturned
    /\ Len(RequiredList(call.target_job)) = 2
    /\ NoDuplicates(RequiredList(call.target_job))
    /\ result.skills_present = 1

(***************************************************************************)
(* C7: for a target job that is not in the job table, analyze_skill_gap    *)
(* returns (the unknown job raises nothing) a result with                  *)
(* total_required_skills 0, proficiency_score 0 and empty present,         *)
(* missing, critical, important and nice-to-have lists; only a failure of  *)
(* the matching itself ends the call otherwise.                            *)
(***************************************************************************)
C7_UnknownJobGivesEmptyResult ==
    (/\ call.op = "analyze_skill_gap"
     /\ call.target_job \notin DOMAIN job_skill_mapping
     /\ ~MatchRaises(call.resume_skills, call.encode_ok))
    => /\ outcome = "returned"
       /\ result.total_required_skills = 0
       /\ result.proficiency_score.num = 0
       /\ result.proficiency_score.den > 0
       /\ result.present_skills = <<>>
       /\ result.missing_skills = <<>>
       /\ result.critical_missing = <<>>
       /\ result.important_missing = <<>>
       /\ result.nice_to_have_missing = <<>>

C7_Witness ==
    /\ AnalysisReturned
    /\ call.target_job = "Astronaut"
    /\ "Astronaut" \notin DOMAIN job_skill_mapping
    /\ result.matched_skills /= <<>>

(***************************************************************************)
(* C8: extract_and_match_skills returns one match for each candidate whose *)
(* winning score, the larger of its best semantic similarity and its best  *)
(* lexical ratio, is at least similarity_threshold, and none for the       *)
(* others; the matches are in the order of the candidates, each with its   *)
(* candidate as original_skill and a confidence of at least the threshold; *)
(* an empty candidate list gives an empty list and no error.               *)
(***************************************************************************)
C8_MatchesExactlyAboveThreshold ==
    /\ MatchReturned =>
          LET wins(c) == Max(BestSemantic(c), BestLexical(c)) >= similarity_threshold
              accepted == SelectSeq(call.resume_skills, wins)
          IN  /\ Len(result) = Len(accepted)
              /\ \A i \in 1..Len(result) :
                    /\ result[i].original_skill = accepted[i]
                    /\ result[i].confidence >= similarity_threshold
    /\ (call.op = "extract_and_match_skills" /\ call.resume_skills = <<>>)
          => outcome = "returned" /\ result = <<>>

C8_Witness ==
    /\ MatchReturned
    /\ Len(call.resume_skills) = 2
    /\ Len(result) = 1
    /\ result[1].original_skill = call.resume_skills[2]

(***************************************************************************)
(* C9: for each emitted match, with sem the highest cosine similarity and  *)
(* lex the highest lexical ratio of its candidate over the vocabulary:     *)
(* confidence is the larger of the two, match_type is "semantic" iff       *)
(* sem >= lex and "fuzzy" iff lex > sem, and matched_skill is a vocabulary *)
(* entry attaining sem when semantic wins, lex when fuzzy wins.            *)
(***************************************************************************)
C9_BestOfSemanticAndFuzzy ==
    \A i \in 1..Len(EmittedMatches) :
        LET m == EmittedMatches[i]
            c == m.original_skill
            sem == BestSemantic(c)
            lex == BestLexical(c)
        IN  /\ m.confidence = Max(sem, lex)
            /\ m.match_type \in {"semantic", "fuzzy"}
            /\ m.match_type = "semantic" <=> sem >= lex
            /\ m.match_type = "fuzzy" <=> lex > sem
            /\ m.match_type = "semantic" =>
                  \E j \in 1..Len(skill_list) :
                      /\ skill_list[j] = m.matched_skill
                      /\ cosine_similarity(sbert_model, c, skill_embeddings[j]) = sem
            /\ m.match_type = "fuzzy" =>
                  \E j \in 1..Len(skill_list) :
                      /\ skill_list[j] = m.matched_skill
                      /\ FuzzRatio(c, skill_list[j]) * 10 = lex

\* the misspelled "pyhton" is matched to "Python" by its lexical ratio of 0.83
C9_Witness ==
    /\ MatchReturned
    /\ similarity_threshold = 700
    /\ \E i \in 1..Len(result) :
          /\ result[i].original_skill = "pyhton"
          /\ result[i].matched_skill = "Python"
          /\ result[i].match_type = "fuzzy"
          /\ result[i].confidence = 830

(***************************************************************************)
(* C10: the matched_skill of every emitted match is, verbatim, an element  *)
(* of the loaded skill_list.                                               *)
(***************************************************************************)
C10_MatchedSkillInVocabulary ==
    \A i \in 1..Len(EmittedMatches) :
        EmittedMatches[i].matched_skill \in Range(skill_list)

C10_Witness ==
    /\ MatchReturned
    /\ Len(result) = 2
    /\ result[1].matched_skill /= result[2].matched_skill

(***************************************************************************)
(* C11: whatever the threshold (at most 1.0) and the semantic              *)
(* similarities, a candidate equal to a vocabulary entry up to case gets a *)
(* match, with a confidence of at least 1.0.                               *)
(***************************************************************************)
EqualsIgnoringCase(candidate, skill) == lower(Chars(candidate)) = lower(Chars(skill))

C11_ExactMatchNeverDropped ==
    (MatchReturned \/ AnalysisReturned) =>
        \A i \in 1..Len(call.resume_skills) :
            LET c == call.resume_skills[i]
            IN  (\E v \in Range(skill_list) : EqualsIgnoringCase(c, v)) =>
                    \E k \in 1..Len(EmittedMatches) :
                        /\ EmittedMatches[k].original_skill = c
                        /\ EmittedMatches[k].confidence >= 1000

\* "python" is kept at threshold 1.0 by its lexical ratio, its best similarity being 0.9
C11_Witness ==
    /\ MatchReturned
    /\ similarity_threshold = 1000
    /\ \E k \in 1..Len(result) :
          /\ result[k].original_skill = "python"
          /\ result[k].match_type = "fuzzy"
          /\ result[k].confidence = 1000

(***************************************************************************)
(* C12: when the embedding computation fails, extract_and_match_skills     *)
(* returns no list, not even a partial one: the call raises, and so does   *)
(* the analyze_skill_gap that made it.                                     *)
(***************************************************************************)
C12_EncoderFailurePropagates ==
    (/\ call.op \in {"extract_and_match_skills", "analyze_skill_gap"}
     /\ call.resume_skills /= <<>>
     /\ ~call.encode_ok)
    => outcome = "raised" /\ result = NoResult

C12_Witness ==
    /\ call.op = "analyze_skill_gap"
    /\ Len(call.resume_skills) = 2
    /\ ~call.encode_ok
    /\ outcome = "raised"

(***************************************************************************)
(* Loading, the analysis request, and sequences of calls.                  *)
(***************************************************************************)
\* the files on disk cannot be loaded: one of them cannot be opened or parsed
SnapshotUnloadable == load_skill_data(snapshot).raised

ConstructionReturned == call.op = "SkillGapAnalyzer" /\ outcome = "returned"

RequestEnded == call.op = "perform_skill_gap_analysis" /\ outcome /= "idle"

\* C13: loading a snapshot whose skill-name list and embedding list differ in
\* length fails at load time, and no constructed analyzer has a skill_list whose
\* length differs from its number of embedding rows.
C13_LoadValidatesLengths ==
    /\ (call.op = "SkillGapAnalyzer" /\ Len(snapshot.skills) /= Len(snapshot.embeddings)
            => outcome = "raised")
    /\ (ConstructionReturned \/ skill_analyzer /= "None"
            => Len(skill_list) = Len(skill_embeddings))

\* C14: a snapshot that cannot be loaded makes the construction of the analyzer
\* raise, and makes an analysis request end in an error, never in a result
\* computed without the vocabulary.
C14_LoadFailureSurfaced ==
    /\ (call.op = "SkillGapAnalyzer" /\ SnapshotUnloadable => outcome = "raised")
    /\ (RequestEnded /\ SnapshotUnloadable => outcome = "raised")

\* the call in progress has the operation and the arguments of the remembered one
SameArguments ==
    /\ remembered.outcome /= "idle"
    /\ outcome /= "idle"
    /\ call.op = remembered.call.op
    /\ call.resume_skills = remembered.call.resume_skills
    /\ call.target_job = remembered.call.target_job

C16_CallsLeaveAnalyzerUnchanged ==
    [][/\ skill_list' = skill_list
       /\ skill_embeddings' = skill_embeddings
       /\ job_skill_mapping' = job_skill_mapping
       /\ similarity_threshold' = similarity_threshold]_vars

C16_Witness ==
    /\ remembered.others
    /\ call.op = "batch_analyze_skills"
    /\ outcome = "returned"
    /\ Len(result) >= 2
    /\ call.target_job \notin DOMAIN snapshot.mapping
    /\ skill_list = snapshot.skills
    /\ skill_embeddings = snapshot.embeddings
    /\ job_skill_mapping = snapshot.mapping
    /\ similarity_threshold = 700

(***************************************************************************)
(* Vocabulary of the properties of the learning path and the categories.   *)
(***************************************************************************)
PathReturned == call.op = "_create_learning_path" /\ outcome = "returned"

CategorizeReturned == call.op = "_categorize_skills" /\ outcome = "returned"

\* the position of the first item of a skill in a learning path
Position(path, skill) ==
    CHOOSE i \in 1..Len(path) :
        /\ path[i].skill = skill
        /\ \A j \in 1..(i - 1) : path[j].skill /= skill

(***************************************************************************)
(* C17: for the missing skills Docker, Python and SQL, in any of their six *)
(* orders, the learning path has Python before SQL and SQL before Docker.  *)
(***************************************************************************)
C17_PythonSqlDocker ==
    (/\ PathReturned
     /\ Len(call.skills) = 3
     /\ Range(call.skills) = {"Docker", "Python", "SQL"})
    => /\ Len(result) = 3
       /\ Position(result, "Python") < Position(result, "SQL")
       /\ Position(result, "SQL") < Position(result, "Docker")

(***************************************************************************)
(* C18: in a learning path the categories of the items never go back in    *)
(* the order programming, database, tools, data_science, web, cloud, other *)
(* and the items of one category are in the order of the input list.       *)
(***************************************************************************)
PriorityRank(category) ==
    CASE category = "programming"  -> 1
      [] category = "database"     -> 2
      [] category = "tools"        -> 3
      [] category = "data_science" -> 4
      [] category = "web"          -> 5
      [] category = "cloud"        -> 6
      [] category = "other"        -> 7

C18_PriorityOrderStable ==
    PathReturned =>
        /\ \A i, j \in 1..Len(result) :
              i < j => PriorityRank(result[i].category) <= PriorityRank(result[j].category)
        /\ \A c \in { result[i].category : i \in 1..Len(result) } :
              LET of_c(item) == item.category = c
                  items == SelectSeq(result, of_c)
                  given(skill) == \E k \in 1..Len(result) :
                                      result[k].skill = skill /\ result[k].category = c
              IN  [i \in 1..Len(items) |-> items[i].skill] = SelectSeq(call.skills, given)

\* AWS, Docker, Python comes out as Docker, Python (one category) and then AWS
C18_Witness ==
    /\ PathReturned
    /\ Len(result) = 3
    /\ result[1].category = result[2].category
    /\ result[1].skill /= result[2].skill
    /\ result[3].category /= result[2].category
    /\ result[3].skill = call.skills[1]

(***************************************************************************)
(* C19: the estimated_weeks of a learning-path item is the table value of  *)
(* the item's own category (programming 8, data_science 12, web 6,         *)
(* database 4, cloud 6, tools 2, other 4), an integer of at least 1.       *)
(***************************************************************************)
WeeksOfCategory(category) ==
    CASE category = "programming"  -> 8
      [] category = "data_science" -> 12
      [] category = "web"          -> 6
      [] category = "database"     -> 4
      [] category = "cloud"        -> 6
      [] category = "tools"        -> 2
      [] category = "other"        -> 4

C19_WeeksByCategory ==
    PathReturned =>
        \A i \in 1..Len(result) :
            /\ result[i].estimated_weeks = WeeksOfCategory(result[i].category)
            /\ result[i].estimated_weeks \in Nat
            /\ result[i].estimated_weeks >= 1

C19_Witness ==
    /\ PathReturned
    /\ \E i, j, k \in 1..Len(result) :
          /\ result[i].estimated_weeks = 12
          /\ result[j].estimated_weeks = 2
          /\ result[k].estimated_weeks = 8

(***************************************************************************)
(* C20: skill_categories has every skill of present + missing in exactly   *)
(* one bucket, the first of Programming Languages, Machine Learning/AI,    *)
(* Web Technologies, Databases, Cloud & DevOps, Data Analysis with a       *)
(* keyword that is a substring of the lower-cased name, or Other when      *)
(* there is none; and it has no empty bucket.                              *)
(***************************************************************************)
BucketOrder ==
    <<"Programming Languages", "Machine Learning/AI", "Web Technologies",
      "Databases", "Cloud & DevOps", "Data Analysis">>

KeywordsOf(bucket) ==
    LET i == CHOOSE k \in 1..Len(category_tests) : category_tests[k].bucket = bucket
    IN  Range(category_tests[i].keywords)

ExpectedBucketTable ==
    [skill \in SkillNames |->
        LET hits == { i \in 1..Len(BucketOrder) :
                        \E keyword \in KeywordsOf(BucketOrder[i]) :
                            IsSubstring(Chars(keyword), lower(Chars(skill))) }
        IN  IF hits = {} THEN "Other"
            ELSE BucketOrder[CHOOSE i \in hits : \A j \in hits : i <= j]]

C20_CategoriesPartition ==
    CategorizeReturned =>
        LET all_skills == call.present \o call.missing
        IN  /\ \A b \in DOMAIN result :
                  result[b] /= <<>> /\ Range(result[b]) \subseteq Range(all_skills)
            /\ \A s \in Range(all_skills) :
                  /\ ExpectedBucketTable[s] \in DOMAIN result
                  /\ \A b \in DOMAIN result :
                        s \in Range(result[b]) <=> b = ExpectedBucketTable[s]

\* SQL has keywords in two buckets and is put in the first one
C20_Witness ==
    /\ CategorizeReturned
    /\ Cardinality(DOMAIN result) >= 3
    /\ "Programming Languages" \in DOMAIN result
    /\ "SQL" \in Range(result["Programming Languages"])

(***************************************************************************)
(* C21: a skill named exactly as a keyword of the learning-path builder's  *)
(* table gets the first category, in table order, that lists the keyword   *)
(* (cloud for Docker), and that category's estimated_weeks.                *)
(***************************************************************************)
ListingCategory(skill) ==
    LET listing == { i \in 1..Len(skill_categories) :
                       skill \in Range(skill_categories[i].cat_skills) }
    IN  skill_categories[CHOOSE i \in listing : \A j \in listing : i <= j].category

C21_KeywordGetsItsCategory ==
    PathReturned =>
        \A i \in 1..Len(result) :
            result[i].skill \in KeywordSkills =>
                /\ result[i].category = ListingCategory(result[i].skill)
                /\ result[i].estimated_weeks
                       = WeeksOfCategory(ListingCategory(result[i].skill))

(***************************************************************************)
(* C22: in _categorize_skills a skill whose lower-cased name equals a      *)
(* keyword of a bucket, and no keyword of an earlier bucket, is placed in  *)
(* that bucket.                                                            *)
(***************************************************************************)
\* the first bucket, in the order of the chain, with the keyword among its keywords
OwnBucket(keyword) ==
    LET own == { i \in 1..Len(category_tests) :
                   keyword \in Range(category_tests[i].keywords) }
    IN  category_tests[CHOOSE i \in own : \A j \in own : i <= j].bucket

C22_KeywordReachesItsBucket ==
    CategorizeReturned =>
        \A s \in Range(call.present \o call.missing) :
            s \in KeywordNames =>
                /\ OwnBucket(s) \in DOMAIN result
                /\ s \in Range(result[OwnBucket(s)])

RecommendReturned == call.op = "_generate_recommendations" /\ outcome = "returned"

\* the number of occurrences of x in a list
Count(list, x) == Cardinality({ i \in 1..Len(list) : list[i] = x })

\* the skills of a list of items, in its order
SkillsOf(items) == [i \in 1..Len(items) |-> items[i].skill]

(***************************************************************************)
(* C23: the learning path of the recommendations is a permutation of       *)
(* critical_missing + important_missing + the first three skills of        *)
(* nice_to_have_missing: the same skills, each as often, and no other.     *)
(***************************************************************************)
C23_LearningPathIsPermutation ==
    RecommendReturned =>
        LET all_missing ==
                call.critical \o call.important \o Prefix(call.nice_to_have, 3)
            path == SkillsOf(result.learning_path)
        IN  /\ Len(path) = Len(all_missing)
            /\ \A s \in Range(path) \cup Range(all_missing) :
                  Count(path, s) = Count(all_missing, s)

\* more than three nice-to-have skills, a repeated skill, and a path in another order
C23_Witness ==
    /\ RecommendReturned
    /\ Len(call.nice_to_have) > 3
    /\ call.critical /= <<>>
    /\ Count(SkillsOf(result.learning_path), "Python") >= 2
    /\ Count(SkillsOf(result.learning_path), "AWS") >= 2
    /\ SkillsOf(result.learning_path)
          /= call.critical \o call.important \o Prefix(call.nice_to_have, 3)

(***************************************************************************)
(* C24: priority_order lists every critical skill tagged Critical, then    *)
(* every important skill tagged Important, then the first five             *)
(* nice-to-have skills tagged Nice-to-have, each group in the order of its *)
(* list, and nothing else.                                                 *)
(***************************************************************************)
Tagged(skills, priority) ==
    [i \in 1..Len(skills) |-> [skill |-> skills[i], priority |-> priority]]

C24_PriorityOrderByTier ==
    RecommendReturned =>
        [i \in 1..Len(result.priority_order) |->
            [skill |-> result.priority_order[i].skill,
             priority |-> result.priority_order[i].priority]]
        = Tagged(call.critical, "Critical")
          \o Tagged(call.important, "Important")
          \o Tagged(Prefix(call.nice_to_have, 5), "Nice-to-have")

C24_Witness ==
    /\ RecommendReturned
    /\ call.critical /= <<>>
    /\ call.important /= <<>>
    /\ Len(call.nice_to_have) > 5
    /\ Len(result.priority_order) = Len(call.critical) + Len(call.important) + 5

EndpointAnalysed ==
    /\ call.op = "POST /analysis/analyze"
    /\ outcome /= "idle"
    /\ call.resume_exists
    /\ call.target_job \in DbJobs
    /\ result.computed.source /= "none"

\* the prioritised recommendations and the learning-path items of a computed analysis
ComputedRecommendations(computed) ==
    LET priority_order ==
            IF computed.source = "analyze_skill_gap"
            THEN computed.analysis.recommendations.priority_order
            ELSE computed.analysis.recommendations
    IN  [i \in 1..Len(priority_order) |->
            [skill |-> priority_order[i].skill,
             priority |-> priority_order[i].priority,
             reason |-> priority_order[i].reason]]

ComputedLearningPath(computed) ==
    IF computed.source = "analyze_skill_gap"
    THEN computed.analysis.recommendations.learning_path
    ELSE computed.analysis.learning_path

(***************************************************************************)
(* C25: for a processed resume of the caller and an existing job, whenever *)
(* an analysis is computed, by analyze_skill_gap or by                     *)
(* perform_basic_analysis, the request ends with 201 and its response      *)
(* carries the prioritised recommendations and the learning-path items of  *)
(* that analysis.                                                          *)
(***************************************************************************)
C25_ResponseCarriesAnalysis ==
    EndpointAnalysed =>
        /\ result.status = 201
        /\ result.recommendations = ComputedRecommendations(result.computed)
        /\ result.learning_path = ComputedLearningPath(result.computed)

OverlapReturned == call.op = "_remove_overlapping_skills" /\ outcome = "returned"

(***************************************************************************)
(* C26: no two matches returned by _remove_overlapping_skills overlap, and *)
(* every returned match is an element of the input list.                   *)
(***************************************************************************)
C26_NoOverlapInResult ==
    OverlapReturned =>
        /\ \A i, j \in 1..Len(result) : i /= j => ~Overlap(result[i], result[j])
        /\ Range(result) \subseteq Range(call.skills)

\* a match was dropped although it does not overlap the match accepted last
C26_Witness ==
    /\ OverlapReturned
    /\ Len(result) >= 2
    /\ \E i \in 1..Len(call.skills) :
        /\ ~Contains(result, call.skills[i])
        /\ ~Overlap(call.skills[i], result[Len(result)])

(***************************************************************************)
(* C27: every input match that _remove_overlapping_skills does not return  *)
(* overlaps a returned match of greater or equal confidence, and the       *)
(* returned list is in non-increasing order of confidence.                 *)
(***************************************************************************)
C27_HighestConfidenceKept ==
    OverlapReturned =>
        /\ \A i \in 1..Len(call.skills) :
             ~Contains(result, call.skills[i]) =>
                \E j \in 1..Len(result) :
                    /\ Overlap(call.skills[i], result[j])
                    /\ result[j].confidence >= call.skills[i].confidence
        /\ \A i, j \in 1..Len(result) :
             i < j => result[i].confidence >= result[j].confidence

\* the input's first match is dropped for a later match of higher confidence
C27_Witness ==
    /\ OverlapReturned
    /\ Len(call.skills) >= 2
    /\ ~Contains(result, call.skills[1])
    /\ \E j \in 1..Len(result) :
        /\ Overlap(call.skills[1], result[j])
        /\ result[j].confidence > call.skills[1].confidence
    /\ Len(result) >= 2
    /\ result[1].confidence > result[Len(result)].confidence

ExtractReturned == call.op = "extract_skills_from_text" /\ outcome = "returned"

(***************************************************************************)
(* C28: extract_skills_from_text returns every skill name of which a       *)
(* pattern is found in the text and no other name, without duplicates and  *)
(* in ascending order; it returns the empty list when no pattern is found. *)
(***************************************************************************)
C28_EveryMatchedSkillReturned ==
    ExtractReturned =>
        /\ Range(result) = { skill_patterns[pattern] : pattern \in call.text }
        /\ NoDuplicates(result)
        /\ \A i, j \in 1..Len(result) : i < j => StrLess(result[i], result[j])
        /\ call.text = {} => result = <<>>

(***************************************************************************)
(* C29: a resume enters the table with processed = FALSE, and a resume     *)
(* that is not processed is eventually processed, whether the runs of      *)
(* process_resume_skills succeed or raise.                                 *)
(***************************************************************************)
C29_EventuallyProcessed ==
    /\ [][\A r \in ResumeIds :
            (r \notin DOMAIN resumes /\ r \in DOMAIN resumes') => ~resumes'[r].processed]_vars
    /\ \A r \in ResumeIds :
         (r \in DOMAIN resumes /\ ~resumes[r].processed)
            ~> (r \in DOMAIN resumes /\ resumes[r].processed)

\* the task of the upload raised while saving, and the resume is processed
C29_Witness ==
    /\ Len(background_tasks) >= 1
    /\ background_tasks[1].pc = "done"
    /\ background_tasks[1].raised
    /\ background_tasks[1].skills_data /= <<>>
    /\ resumes[background_tasks[1].resume_id].processed

AllTasksFinished ==
    \A t \in 1..Len(background_tasks) : background_tasks[t].pc = "done"

\* the rows one run wrote
RowsWritten(task) ==
    [i \in 1..task.saved |->
        [resume_id |-> task.resume_id, skill_id |-> task.skills_data[i].skill_id]]

(***************************************************************************)
(* C30: when the upload's task ran before any reprocess request, then      *)
(* after reprocess requests and all the tasks scheduled, in any order, the *)
(* resume is processed and the resume_skills rows are the rows one run     *)
(* wrote.                                                                  *)
(***************************************************************************)
C30_RowsOfOneRun ==
    ( /\ reprocessed >= 1
      /\ AllTasksFinished
      /\ background_tasks[1].before_reprocess )
    => \A r \in DOMAIN resumes :
          /\ resumes[r].processed
          /\ \E t \in 1..Len(background_tasks) :
                /\ background_tasks[t].resume_id = r
                /\ LET mine(row) == row.resume_id = r
                   IN  SelectSeq(resume_skills_table, mine) = RowsWritten(background_tasks[t])

====
